---- MODULE Spec2Model ----
(***************************************************************************)
(* Night Shift text adventure: the Game engine (latest variant, Game class *)
(* with cheats and fuse removal), the Room and Item classes and the latest *)
(* content (initializeGame), as a state machine.                           *)
(*                                                                         *)
(* A handler of the program is a pure operator from the Game object (a     *)
(* record `g` standing for `this`) to the Game object after the handler;   *)
(* an action applies one handler to the current state.  Objects of class   *)
(* Room are named by their id (ids are unique in the content), objects of  *)
(* class Item are records carrying an object identity `oid`.               *)
(***************************************************************************)
EXTENDS Integers, Sequences, FiniteSets, TLC

NULL == "null"

Max(a, b) == IF a > b THEN a ELSE b
Min(a, b) == IF a < b THEN a ELSE b

\* F(e), with e computed once before F reads it: the value a statement
\* leaves behind for the statements after it
With(e, F(_)) == CHOOSE r \in { F(x) : x \in {e} } : TRUE

\* number of inputs (commands and ticks) explored after the play-through prefix
MaxSteps == 2

maxHealth == 100
maxEnergy == 100
maxInventorySize == 10

(***************************************************************************)
(* Item (room.js).  oid is the identity of the JavaScript object: 0 for    *)
(* the objects created once by initializeGame (their ids are pairwise      *)
(* distinct), k > 0 for the k-th object created while the game runs.       *)
(***************************************************************************)
Item(id) ==
    [id |-> id, canUse |-> FALSE, useEffect |-> NULL, oid |-> 0]

setUsable(item, effect) ==
    [item EXCEPT !.canUse = TRUE, !.useEffect = effect]

\* the Item objects of the content; a useEffect is named by the item's id
flashlight   == Item("flashlight")
keycard      == Item("keycard")
firstaid     == setUsable(Item("medkit"), "medkit")
energydrink  == setUsable(Item("energy"), "energy")
basement_key == setUsable(Item("basement-key"), "basement-key")
fuse         == setUsable(Item("fuse"), "fuse")
gasmask      == Item("gasmask")
painkiller   == setUsable(Item("painkillers"), "painkillers")
coffee       == setUsable(Item("coffee"), "coffee")
batteries    == Item("batteries")
extinguisher == setUsable(Item("extinguisher"), "extinguisher")
accesscard   == setUsable(Item("access-card"), "access-card")
hazmat       == Item("hazmat-suit")
wrench       == setUsable(Item("wrench"), "wrench")
sedative     == setUsable(Item("sedative"), "sedative")
adrenaline   == setUsable(Item("adrenaline"), "adrenaline")
labkey       == setUsable(Item("lab-key"), "lab-key")
roofkey      == Item("roof-key")
elevatorkey  == setUsable(Item("elevator-key"), "elevator-key")
document     == Item("documents")
crowbar      == setUsable(Item("crowbar"), "crowbar")

ContentItems ==
    { flashlight, keycard, firstaid, energydrink, basement_key, fuse, gasmask,
      painkiller, coffee, batteries, extinguisher, accesscard, hazmat, wrench,
      sedative, adrenaline, labkey, roofkey, elevatorkey, document, crowbar }

ItemIds == { i.id : i \in ContentItems }

(***************************************************************************)
(* Room (room.js).  The exits table is fixed once the content is built, so *)
(* it is kept apart from the fields that change while the game runs.       *)
(***************************************************************************)
Room(id) ==
    [id |-> id, items |-> << >>, visited |-> FALSE, isDangerous |-> FALSE,
     dangerMessage |-> "", description |-> "initial"]

\* Room.addExit(direction, destinationId): exits[direction] = destinationId
addExit(exits, direction, destinationId) ==
    [d \in (DOMAIN exits) \cup {direction} |->
        IF d = direction THEN destinationId ELSE exits[d]]

addItem(room, item) ==
    [room EXCEPT !.items = Append(@, item)]

\* index of the first item with that id, 0 when there is none (findIndex)
findIndex(items, itemId) ==
    IF \E k \in 1..Len(items) : items[k].id = itemId
    THEN CHOOSE k \in 1..Len(items) :
            /\ items[k].id = itemId
            /\ \A j \in 1..(k - 1) : items[j].id # itemId
    ELSE 0

\* items.splice(index, 1) with index = findIndex(...): a negative index
\* counts from the end, so "not found" (-1, here 0) removes the last element
splice(items, index) ==
    IF items = << >> THEN items
    ELSE LET at == IF index = 0 THEN Len(items) ELSE index
         IN  [k \in 1..(Len(items) - 1) |->
                 IF k < at THEN items[k] ELSE items[k + 1]]

\* Room.removeItem(itemId): the room afterwards; the item removed is
\* room.items[findIndex(room.items, itemId)]
removeItem(room, itemId) ==
    LET index == findIndex(room.items, itemId)
    IN  IF index # 0 THEN [room EXCEPT !.items = splice(@, index)] ELSE room

hasItem(items, itemId) == \E k \in 1..Len(items) : items[k].id = itemId

setDangerous(room, message) ==
    [room EXCEPT !.isDangerous = TRUE, !.dangerMessage = message]

\* Room.getExit(direction): this.exits[direction] || null
getExit(exits, direction) ==
    IF direction \in DOMAIN exits THEN exits[direction] ELSE NULL

(***************************************************************************)
(* The content: initializeGame (latest variant).                           *)
(***************************************************************************)
RoomIds ==
    { "security", "lobby", "claims", "servers", "datacenter", "breakroom",
      "supply", "executive", "executive-hall", "boardroom", "it-office",
      "lab-hall", "research-lab", "cafeteria", "garage", "storage", "archive",
      "mechanical", "tunnel", "sub-basement", "basement", "roof", "freedom" }

\* the addExit calls of initializeGame, with all four arguments as written
ExitCalls ==
    << <<"security", "north", "lobby", FALSE, NULL>>,
       <<"security", "east", "servers", FALSE, NULL>>,
       <<"security", "south", "archive", FALSE, NULL>>,
       <<"security", "west", "storage", FALSE, NULL>>,
       <<"lobby", "south", "security", FALSE, NULL>>,
       <<"lobby", "east", "claims", FALSE, NULL>>,
       <<"lobby", "west", "breakroom", FALSE, NULL>>,
       <<"lobby", "north", "cafeteria", FALSE, NULL>>,
       <<"lobby", "up", "roof", TRUE, "elevatorAccess">>,
       <<"claims", "west", "lobby", FALSE, NULL>>,
       <<"claims", "south", "servers", FALSE, NULL>>,
       <<"claims", "east", "it-office", FALSE, NULL>>,
       <<"claims", "north", "executive-hall", FALSE, NULL>>,
       <<"claims", "down", "basement", TRUE, "basementUnlocked">>,
       <<"servers", "west", "security", FALSE, NULL>>,
       <<"servers", "north", "claims", FALSE, NULL>>,
       <<"servers", "east", "datacenter", FALSE, NULL>>,
       <<"datacenter", "west", "servers", FALSE, NULL>>,
       <<"datacenter", "south", "mechanical", FALSE, NULL>>,
       <<"breakroom", "east", "lobby", FALSE, NULL>>,
       <<"breakroom", "north", "supply", FALSE, NULL>>,
       <<"supply", "south", "breakroom", FALSE, NULL>>,
       <<"executive", "west", "executive-hall", FALSE, NULL>>,
       <<"executive-hall", "east", "executive", FALSE, NULL>>,
       <<"executive-hall", "south", "claims", FALSE, NULL>>,
       <<"executive-hall", "north", "boardroom", TRUE, "executiveUnlocked">>,
       <<"boardroom", "south", "executive-hall", FALSE, NULL>>,
       <<"it-office", "west", "claims", FALSE, NULL>>,
       <<"it-office", "east", "lab-hall", FALSE, NULL>>,
       <<"lab-hall", "west", "it-office", FALSE, NULL>>,
       <<"lab-hall", "east", "research-lab", TRUE, "labUnlocked">>,
       <<"research-lab", "west", "lab-hall", FALSE, NULL>>,
       <<"cafeteria", "south", "lobby", FALSE, NULL>>,
       <<"cafeteria", "north", "garage", FALSE, NULL>>,
       <<"garage", "south", "cafeteria", FALSE, NULL>>,
       <<"storage", "east", "security", FALSE, NULL>>,
       <<"storage", "down", "tunnel", TRUE, "tunnelRevealed">>,
       <<"archive", "north", "security", FALSE, NULL>>,
       <<"archive", "east", "mechanical", FALSE, NULL>>,
       <<"mechanical", "west", "archive", FALSE, NULL>>,
       <<"mechanical", "north", "datacenter", FALSE, NULL>>,
       <<"tunnel", "up", "storage", FALSE, NULL>>,
       <<"tunnel", "east", "basement", FALSE, NULL>>,
       <<"basement", "up", "claims", TRUE, "basementUnlocked">>,
       <<"basement", "west", "tunnel", FALSE, NULL>>,
       <<"basement", "down", "sub-basement", FALSE, NULL>>,
       <<"sub-basement", "up", "basement", FALSE, NULL>>,
       <<"roof", "down", "lobby", FALSE, NULL>>,
       <<"roof", "escape", "freedom", FALSE, NULL>> >>

\* the exits of every room after the addExit calls from the first to the
\* last of them (the first half, then the rest), given the exits before:
\* addExit is called with four arguments and uses the first two
RECURSIVE ExitsAfter(_, _, _)
ExitsAfter(before, first, last) ==
    IF first > last THEN before
    ELSE IF first = last
    THEN [before EXCEPT ![ExitCalls[first][1]] =
                addExit(@, ExitCalls[first][2], ExitCalls[first][3])]
    ELSE With(ExitsAfter(before, first, (first + last) \div 2),
              LAMBDA half : ExitsAfter(half, (first + last) \div 2 + 1, last))

exits == ExitsAfter([r \in RoomIds |-> << >>], 1, Len(ExitCalls))

\* the addItem calls of initializeGame, room by room, in program order
ItemCalls ==
    [r \in RoomIds |->
        CASE r = "security"     -> <<flashlight, keycard, coffee>>
          [] r = "lobby"        -> <<energydrink>>
          [] r = "claims"       -> <<firstaid>>
          [] r = "servers"      -> <<batteries>>
          [] r = "datacenter"   -> <<extinguisher, batteries>>
          [] r = "breakroom"    -> <<energydrink, firstaid, basement_key>>
          [] r = "supply"       -> <<hazmat, batteries, fuse>>
          [] r = "executive"    -> <<accesscard>>
          [] r = "archive"      -> <<wrench, painkiller>>
          [] r = "storage"      -> <<energydrink>>
          [] r = "boardroom"    -> <<document, roofkey, labkey, energydrink>>
          [] r = "it-office"    -> <<batteries, energydrink>>
          [] r = "lab-hall"     -> <<painkiller>>
          [] r = "research-lab" -> <<adrenaline, coffee>>
          [] r = "cafeteria"    -> <<energydrink, coffee, firstaid>>
          [] r = "garage"       -> <<crowbar, batteries>>
          [] r = "tunnel"       -> <<firstaid>>
          [] r = "sub-basement" -> <<elevatorkey>>
          [] OTHER              -> << >>]

\* the setDangerous calls of initializeGame.  A message keeps the characters
\* of its string literal; a character outside ASCII is written U+<code point>
DangerCalls ==
    [r \in RoomIds |->
        CASE r = "claims"       ->
                "U+F0 U+178 U+2019 U+20AC The toxic fumes are hurting you!"
          [] r = "datacenter"   ->
                "U+F0 U+178 U+201D U+A5 The smoke and heat are damaging you!"
          [] r = "mechanical"   ->
                "U+F0 U+178 U+2019 U+A8 Steam vents scald you! The heat is unbearable!"
          [] r = "research-lab" ->
                "U+E2 U+2DC U+A3 U+EF U+B8 Toxic chemicals are burning your skin and lungs!"
          [] r = "cafeteria"    ->
                "U+F0 U+178 U+A6 U+A0 Toxic mold spores from spoiled food fill the air! You're choking!"
          [] OTHER              -> NULL]

RECURSIVE AddItems(_, _)
AddItems(room, items) ==
    IF items = << >> THEN room
    ELSE AddItems(addItem(room, Head(items)), Tail(items))

\* the rooms of the graph returned by initializeGame
initializeGame ==
    [r \in RoomIds |->
        LET room == IF DangerCalls[r] # NULL
                    THEN setDangerous(Room(r), DangerCalls[r])
                    ELSE Room(r)
        IN  AddItems(room, ItemCalls[r])]

startRoomId == "security"

\* AdventureGraph.getRoom(id): the id when registered, else null
getRoom(roomId) == IF roomId \in RoomIds THEN roomId ELSE NULL


(***************************************************************************)
(* AdventureGraph.  `G` is the graph object: G.rooms is the Map of room id *)
(* to Room object as the sequence of its values in insertion order, and a  *)
(* Room object here carries its exits.  A method is the pair of the graph  *)
(* after the call and the value returned (or the Error thrown).            *)
(***************************************************************************)
\* new AdventureGraph()
AdventureGraph == [rooms |-> << >>, startRoomId |-> NULL]

\* new Room(id, ...) with its exits object
RoomObject(room, ex) ==
    [id |-> room.id, exits |-> ex, items |-> room.items,
     visited |-> room.visited, isDangerous |-> room.isDangerous,
     dangerMessage |-> room.dangerMessage]

\* something that is not a Room instance
NotARoom == [id |-> NULL]

\* Map.has, Map.get and Map.set on G.rooms
has(G, roomId) == \E k \in 1..Len(G.rooms) : G.rooms[k].id = roomId

mapGet(G, roomId) ==
    IF has(G, roomId)
    THEN G.rooms[CHOOSE k \in 1..Len(G.rooms) : G.rooms[k].id = roomId]
    ELSE NULL

mapSet(roomSeq, room) ==
    IF \E k \in 1..Len(roomSeq) : roomSeq[k].id = room.id
    THEN [k \in 1..Len(roomSeq) |->
            IF roomSeq[k].id = room.id THEN room ELSE roomSeq[k]]
    ELSE Append(roomSeq, room)

\* a value JavaScript takes for false in a condition
falsy(x) == x = NULL \/ x = ""

\* AdventureGraph.addRoom(room), with a variant in which the room added
\* last becomes the start room
addRoom_lastIsStart(G, room) ==
    IF room = NotARoom
    THEN [graph |-> G, returned |-> "Error: Must provide a Room instance"]
    ELSE [graph |-> [rooms |-> mapSet(G.rooms, room), startRoomId |-> room.id],
          returned |-> "this"]

addRoom(G, room) ==
    IF room = NotARoom
    THEN [graph |-> G, returned |-> "Error: Must provide a Room instance"]
    ELSE [graph |-> [rooms |-> mapSet(G.rooms, room),
                     startRoomId |-> IF G.startRoomId = NULL THEN room.id
                                     ELSE G.startRoomId],
          returned |-> "this"]

\* AdventureGraph.setStartRoom(roomId)
setStartRoom(G, roomId) ==
    IF ~has(G, roomId)
    THEN [graph |-> G, returned |-> "Error: Room does not exist"]
    ELSE [graph |-> [G EXCEPT !.startRoomId = roomId], returned |-> "this"]

\* Room.addExit called on the Room object registered under roomId
roomAddExit(G, roomId, direction, destinationId) ==
    [graph |-> [G EXCEPT !.rooms =
                    [k \in 1..Len(G.rooms) |->
                        IF G.rooms[k].id = roomId
                        THEN [G.rooms[k] EXCEPT
                                !.exits = addExit(@, direction, destinationId)]
                        ELSE G.rooms[k]]],
     returned |-> "this"]

\* Object.entries(room.exits) as <<direction, destinationId>> pairs; the
\* keys are listed in this order of the directions
entries(ex) ==
    LET keys == SelectSeq(<<"north", "south", "east", "west", "up", "down", "escape">>,
                          LAMBDA d : d \in DOMAIN ex)
    IN  [j \in 1..Len(keys) |-> <<keys[j], ex[keys[j]]>>]

\* validate: the errors pushed for the broken connections of rooms k, k+1, ...
RECURSIVE brokenFrom(_, _, _)
brokenFrom(G, first, last) ==
    IF first > last THEN << >>
    ELSE IF first = last
    THEN LET room == G.rooms[first]
             all == entries(room.exits)
             bad == SelectSeq(all, LAMBDA e : ~has(G, e[2]))
         IN  [j \in 1..Len(bad) |-> <<"broken exit", room.id, bad[j][1], bad[j][2]>>]
    ELSE brokenFrom(G, first, (first + last) \div 2)
         \o brokenFrom(G, (first + last) \div 2 + 1, last)

\* validate: one turn of the loop of the breadth-first search, on the queue
\* and the reachable set in bfs
visit(G, bfs) ==
    LET roomId == Head(bfs.queue)
        seen == bfs.reachable \cup {roomId}
        found == IF ~has(G, roomId) THEN << >>
                 ELSE SelectSeq(entries(mapGet(G, roomId).exits),
                                LAMBDA e : e[2] \notin seen)
    IN  IF roomId \in bfs.reachable
        THEN [bfs EXCEPT !.queue = Tail(@)]
        ELSE [queue |-> Tail(bfs.queue) \o [j \in 1..Len(found) |-> found[j][2]],
              reachable |-> seen]

\* validate: the loop of the search, which stops when the queue is empty
\* and takes no more than `turns` turns: half of them, then the rest
RECURSIVE search(_, _, _)
search(G, bfs, turns) ==
    IF bfs.queue = << >> \/ turns = 0 THEN bfs
    ELSE IF turns = 1 THEN visit(G, bfs)
    ELSE With(search(G, bfs, turns \div 2),
              LAMBDA half : search(G, half, turns - turns \div 2))

\* validate: the warnings, one for each key of the Map left unreached
unreached(G, reachable) ==
    LET left == SelectSeq(G.rooms, LAMBDA room : room.id \notin reachable)
    IN  [j \in 1..Len(left) |-> <<"unreachable", left[j].id>>]

\* the sum of Room.getAvailableDirections().length over the rooms from the
\* first to the last
RECURSIVE sumExits(_, _, _)
sumExits(roomSeq, first, last) ==
    IF first > last THEN 0
    ELSE IF first = last THEN Cardinality(DOMAIN roomSeq[first].exits)
    ELSE sumExits(roomSeq, first, (first + last) \div 2)
         + sumExits(roomSeq, (first + last) \div 2 + 1, last)

\* validate: the rooms the search reaches from the start room; the queue
\* takes the start room and then no more entries than there are exits
reachableFrom(G) ==
    search(G, [queue |-> <<G.startRoomId>>, reachable |-> {}],
           1 + sumExits(G.rooms, 1, Len(G.rooms))).reachable

\* AdventureGraph.validate(), with a variant that stops at the first error
\* and so never looks for unreachable rooms
validate_stopsAtErrors(G) ==
    IF Len(G.rooms) = 0
    THEN [graph |-> G,
          returned |-> [valid |-> FALSE, errors |-> << <<"Graph has no rooms">> >>,
                        warnings |-> << >>]]
    ELSE \* the errors of the start room check and of the broken connections
         LET errors == (IF falsy(G.startRoomId) THEN << <<"No start room set">> >>
                        ELSE << >>) \o brokenFrom(G, 1, Len(G.rooms))
         IN  [graph |-> G,
              returned |->
                [valid |-> errors = << >>, errors |-> errors,
                 warnings |-> IF errors # << >> THEN << >>
                              ELSE unreached(G, reachableFrom(G))]]

validate(G) ==
    IF Len(G.rooms) = 0
    THEN [graph |-> G,
          returned |-> [valid |-> FALSE, errors |-> << <<"Graph has no rooms">> >>,
                        warnings |-> << >>]]
    ELSE \* the errors of the start room check and of the broken connections
         LET errors == (IF falsy(G.startRoomId) THEN << <<"No start room set">> >>
                        ELSE << >>) \o brokenFrom(G, 1, Len(G.rooms))
         IN  [graph |-> G,
              returned |->
                [valid |-> errors = << >>, errors |-> errors,
                 warnings |-> unreached(G, reachableFrom(G))]]

\* AdventureGraph.getAllRooms(): a new array of the Room objects, with a
\* variant that hands the rooms over and leaves the Map empty
getAllRooms_drains(G) == [graph |-> [G EXCEPT !.rooms = << >>], returned |-> G.rooms]

getAllRooms(G) == [graph |-> G, returned |-> G.rooms]

\* AdventureGraph.getStats(); averageExits is (total / n).toFixed(2), given
\* here in hundredths
getStats(G) ==
    LET n == Len(G.rooms)
        counts == { Cardinality(DOMAIN G.rooms[k].exits) : k \in 1..n }
        totalExits == sumExits(G.rooms, 1, Len(G.rooms))
    IN  [graph |-> G,
         returned |->
            [roomCount |-> n,
             totalExits |-> totalExits,
             averageExits |-> IF n > 0 THEN (200 * totalExits + n) \div (2 * n) ELSE 0,
             maxExits |-> IF n > 0 THEN CHOOSE c \in counts : \A d \in counts : d <= c
                          ELSE 0,
             minExits |-> IF n > 0 THEN CHOOSE c \in counts : \A d \in counts : c <= d
                          ELSE 0,
             startRoom |-> G.startRoomId]]

\* AdventureGraph.generateASCIIMap(): the lines joined, without the frame;
\* a room line is its marker and id, an exit line the direction, the
\* destination and whether a room of that id is known
RECURSIVE mapFrom(_, _, _)
mapFrom(G, first, last) ==
    IF first > last THEN << >>
    ELSE IF first = last
    THEN LET room == G.rooms[first]
             all == entries(room.exits)
         IN  << <<IF room.id = G.startRoomId THEN "start" ELSE "room", room.id>> >>
             \o (IF all = << >> THEN << <<"No exits">> >>
                 ELSE [j \in 1..Len(all) |->
                         <<all[j][1], all[j][2],
                           IF has(G, all[j][2]) THEN "title" ELSE "UNKNOWN">>])
    ELSE mapFrom(G, first, (first + last) \div 2)
         \o mapFrom(G, (first + last) \div 2 + 1, last)

generateASCIIMap(G) ==
    [graph |-> G,
     returned |-> << <<"Total Rooms", Len(G.rooms), sumExits(G.rooms, 1, Len(G.rooms))>>,
                     <<"Start Room", G.startRoomId>> >> \o mapFrom(G, 1, Len(G.rooms))]

\* AdventureGraph.getGraphData(): nodes and edges
RECURSIVE edgesFrom(_, _, _)
edgesFrom(G, first, last) ==
    IF first > last THEN << >>
    ELSE IF first = last
    THEN LET all == entries(G.rooms[first].exits)
         IN  [j \in 1..Len(all) |->
                [from |-> G.rooms[first].id, to |-> all[j][2], label |-> all[j][1]]]
    ELSE edgesFrom(G, first, (first + last) \div 2)
         \o edgesFrom(G, (first + last) \div 2 + 1, last)

getGraphData(G) ==
    [graph |-> G,
     returned |->
        [nodes |-> [k \in 1..Len(G.rooms) |->
                        [id |-> G.rooms[k].id,
                         isStart |-> G.rooms[k].id = G.startRoomId,
                         exitCount |-> Cardinality(DOMAIN G.rooms[k].exits)]],
         edges |-> edgesFrom(G, 1, Len(G.rooms))]]

\* the addRoom calls of initializeGame, in program order
AddRoomCalls ==
    << "security", "lobby", "claims", "servers", "datacenter", "breakroom",
       "supply", "executive", "executive-hall", "boardroom", "it-office",
       "lab-hall", "research-lab", "cafeteria", "garage", "storage", "archive",
       "mechanical", "tunnel", "sub-basement", "basement", "roof", "freedom" >>

\* the addRoom calls from the first to the last of them: the first half,
\* then the rest
RECURSIVE AddRooms(_, _, _)
AddRooms(G, first, last) ==
    IF first > last THEN G
    ELSE IF first = last
    THEN addRoom(G, RoomObject(initializeGame[AddRoomCalls[first]],
                               exits[AddRoomCalls[first]])).graph
    ELSE With(AddRooms(G, first, (first + last) \div 2),
              LAMBDA G1 : AddRooms(G1, (first + last) \div 2 + 1, last))

\* the graph initializeGame returns: the rooms added, then setStartRoom
contentGraph ==
    With(AddRooms(AdventureGraph, 1, Len(AddRoomCalls)),
         LAMBDA G : setStartRoom(G, "security").graph)


(***************************************************************************)
(* Game (latest variant).  `g` is the Game object; g.rooms holds the       *)
(* mutable fields of the graph's Room objects.  g.output is the lines the  *)
(* current input has added to the output element; g.gameOvers and          *)
(* g.victories count the GAME OVER and YOU ESCAPED banners in it, and      *)
(* g.created counts the Item objects created since the content was built.  *)
(***************************************************************************)
FlagNames ==
    { "basementUnlocked", "powerRestored", "fireExtinguished",
      "executiveUnlocked", "labUnlocked", "mechanicalFixed", "storageOpened",
      "elevatorUnlocked", "fuseInstalled", "elevatorAccess", "hasFullMap",
      "godMode", "cabinetMoved", "tunnelRevealed" }

\* Game.constructor; cabinetMoved and tunnelRevealed are not set there and
\* read as undefined (falsy) until an effect sets them
Game ==
    [currentRoom |-> startRoomId,
     health |-> maxHealth,
     energy |-> maxEnergy,
     inventory |-> << >>,
     lastDamageMessage |-> NULL,
     lastEnergyWarning |-> NULL,
     cheatsUnlocked |-> FALSE,
     turns |-> 0,
     isDead |-> FALSE,
     hasWon |-> FALSE,
     gameState |-> [f \in FlagNames |-> FALSE],
     rooms |-> initializeGame,
     output |-> << >>,
     gameOvers |-> 0,
     victories |-> 0,
     created |-> 0]

addOutput(g, line) == [g EXCEPT !.output = Append(@, line)]

\* Game.die, with a variant that forgets to set isDead
die_keepsAlive(g) ==
    addOutput([g EXCEPT !.gameOvers = @ + 1], "GAME OVER")

die(g) ==
    addOutput([g EXCEPT !.isDead = TRUE, !.gameOvers = @ + 1], "GAME OVER")

\* what modifyHealth does once health is set: death, or the line shown
afterHealth(g1, amount, silent) ==
    IF g1.health <= 0 /\ ~g1.isDead THEN die(g1)
    ELSE IF silent \/ amount = 0 THEN g1
    ELSE addOutput(g1, IF amount < 0 THEN "damage" ELSE "heal")

\* Game.modifyHealth, with variants that do not clamp at maxHealth and
\* that never call die
modifyHealth_noUpperClamp(g, amount, silent) ==
    IF g.gameState["godMode"] /\ amount < 0 THEN g
    ELSE With([g EXCEPT !.health = Max(0, g.health + amount)],
              LAMBDA g1 : afterHealth(g1, amount, silent))

modifyHealth_neverDies(g, amount, silent) ==
    IF g.gameState["godMode"] /\ amount < 0 THEN g
    ELSE With([g EXCEPT !.health = Max(0, Min(maxHealth, g.health + amount))],
              LAMBDA g1 : IF silent \/ amount = 0 THEN g1
                          ELSE addOutput(g1, IF amount < 0 THEN "damage" ELSE "heal"))

modifyHealth(g, amount, silent) ==
    IF g.gameState["godMode"] /\ amount < 0 THEN g
    ELSE With([g EXCEPT !.health = Max(0, Min(maxHealth, g.health + amount))],
              LAMBDA g1 : afterHealth(g1, amount, silent))

\* Game.modifyEnergy
modifyEnergy(g, amount, silent) ==
    With([g EXCEPT !.energy = Max(0, Min(maxEnergy, g.energy + amount))],
         LAMBDA g1 : IF ~silent /\ g1.energy <= 0 /\ amount < 0
                     THEN addOutput(g1, "exhausted") ELSE g1)

Disorienting == {"archive", "tunnel"}

\* Game.getDynamicDescription: the description shown for a room, by name
getDynamicDescription(g, roomId) ==
    LET gs == g.gameState
    IN  CASE roomId = "claims" /\ gs["powerRestored"] -> "claims ventilated"
          [] roomId = "claims" /\ ~gs["powerRestored"] /\ gs["basementUnlocked"]
                -> "claims basement open"
          [] roomId = "lobby" /\ gs["powerRestored"] /\ gs["elevatorAccess"]
                -> "lobby elevator open"
          [] roomId = "lobby" /\ gs["powerRestored"] /\ ~gs["elevatorAccess"]
                -> "lobby elevator closed"
          [] roomId = "datacenter" /\ gs["fireExtinguished"] -> "datacenter safe"
          [] roomId = "mechanical" /\ gs["mechanicalFixed"] -> "mechanical safe"
          [] roomId = "storage" /\ gs["storageOpened"] -> "storage cabinet open"
          [] OTHER -> g.rooms[roomId].description

\* room lines that open with the danger message
roomLines_dangerFirst(g, roomId) ==
    (IF g.rooms[g.currentRoom].isDangerous THEN <<"danger">> ELSE << >>)
    \o <<"title", getDynamicDescription(g, roomId)>>
    \o (IF Len(g.rooms[roomId].items) > 0 THEN <<"items">> ELSE << >>)
    \o <<"exits">>
    \o (IF roomId \in Disorienting /\ g.energy <= 0 THEN <<"collapse">> ELSE << >>)
    \o (IF roomId \in Disorienting THEN <<"disorienting">> ELSE << >>)

\* the lines of Game.displayRoom between the room title and the energy cost
roomLines(g, roomId) ==
    <<"title", getDynamicDescription(g, roomId)>>
    \o (IF Len(g.rooms[roomId].items) > 0 THEN <<"items">> ELSE << >>)
    \o <<"exits">>
    \o (IF g.rooms[g.currentRoom].isDangerous THEN <<"danger">> ELSE << >>)
    \o (IF roomId \in Disorienting /\ g.energy <= 0 THEN <<"collapse">> ELSE << >>)
    \o (IF roomId \in Disorienting THEN <<"disorienting">> ELSE << >>)

\* a room display that never charges the movement energy
displayRoom_freeOfCharge(g, roomId) ==
    IF roomId = NULL THEN g
    ELSE [g EXCEPT !.turns = @ + 1,
                   !.rooms[roomId].visited = TRUE,
                   !.output = @ \o roomLines(g, roomId),
                   !.lastDamageMessage =
                       IF g.rooms[g.currentRoom].isDangerous
                       THEN g.rooms[g.currentRoom].dangerMessage ELSE @,
                   !.lastEnergyWarning =
                       IF roomId \in Disorienting /\ g.energy <= 0
                       THEN "collapse" ELSE @]

\* Game.displayRoom(room)
displayRoom(g, roomId) ==
    IF roomId = NULL THEN g
    ELSE With(
        [g EXCEPT !.turns = @ + 1,
                  !.rooms[roomId].visited = TRUE,
                  !.output = @ \o roomLines(g, roomId),
                  !.lastDamageMessage =
                      IF g.rooms[g.currentRoom].isDangerous
                      THEN g.rooms[g.currentRoom].dangerMessage ELSE @,
                  !.lastEnergyWarning =
                      IF roomId \in Disorienting /\ g.energy <= 0
                      THEN "collapse" ELSE @],
        LAMBDA g1 : IF g1.turns > 1 THEN modifyEnergy(g1, -2, FALSE) ELSE g1)

\* an init whose first room display is counted as the second
init_countsFromOne(g) ==
    [displayRoom([g EXCEPT !.turns = 1], g.currentRoom) EXCEPT !.output = << >>]

\* Game.init: the welcome text, the first room display, the tick is started
init(g) == [displayRoom(g, g.currentRoom) EXCEPT !.output = << >>]

\* Game.movePlayer(direction)
\* a move that counts the turn and charges the energy before the exit lookup
movePlayer_chargesFirst(g, direction) ==
    LET destinationId == getExit(exits[g.currentRoom], direction)
        nextRoom == getRoom(destinationId)
    IN  IF destinationId = NULL
        THEN With([g EXCEPT !.turns = @ + 1], LAMBDA g1 :
                addOutput(modifyEnergy(g1, -2, TRUE), "can't go"))
        ELSE IF nextRoom # NULL
        THEN With([g EXCEPT !.output = Append(@, "you head"),
                            !.currentRoom = nextRoom],
                  LAMBDA g1 : displayRoom(g1, nextRoom))
        ELSE addOutput(g, "can't go")

movePlayer(g, direction) ==
    LET destinationId == getExit(exits[g.currentRoom], direction)
        nextRoom == getRoom(destinationId)
    IN  IF destinationId = NULL
        THEN \* exits[direction] is a destination id or undefined: never .locked
             addOutput(g, "can't go")
        ELSE IF nextRoom # NULL
        THEN With([g EXCEPT !.output = Append(@, "you head"),
                            !.currentRoom = nextRoom],
                  LAMBDA g1 : displayRoom(g1, nextRoom))
        ELSE addOutput(g, "can't go")

\* Game.winGame and Game.attemptEscape
winGame(g) ==
    addOutput([g EXCEPT !.hasWon = TRUE, !.victories = @ + 1], "YOU ESCAPED")

\* an escape that works from any room
attemptEscape_anywhere(g) == winGame(g)

attemptEscape(g) ==
    IF g.currentRoom = "roof" THEN winGame(g) ELSE addOutput(g, "no escape route")

\* inventory.splice(inventory.findIndex(item => item.id === itemId), 1)
spliceInventory(g, itemId) ==
    [g EXCEPT !.inventory = splice(@, findIndex(@, itemId))]

hasInInventory(g, itemId) == hasItem(g.inventory, itemId)

\* a fuse effect that switches claims and the sub-basement but not the
\* cafeteria
fuseEffect_cafeteriaForgotten(g, electrified) ==
    IF g.currentRoom = "servers" /\ ~g.gameState["powerRestored"]
    THEN [g EXCEPT !.gameState["powerRestored"] = TRUE,
                   !.gameState["fuseInstalled"] = TRUE,
                   !.output = Append(@, "fuse installed"),
                   !.inventory = splice(@, findIndex(@, "fuse")),
                   !.rooms["claims"].isDangerous = FALSE,
                   !.rooms["claims"].dangerMessage = "",
                   !.rooms["sub-basement"].isDangerous = TRUE,
                   !.rooms["sub-basement"].dangerMessage = electrified]
    ELSE IF g.gameState["powerRestored"]
    THEN addOutput(g, "power already restored")
    ELSE addOutput(g, "need the breaker panel")

\* a fuse effect that leaves the fuse in the inventory
fuseEffect_keepsFuse(g, electrified) ==
    IF g.currentRoom = "servers" /\ ~g.gameState["powerRestored"]
    THEN [g EXCEPT !.gameState["powerRestored"] = TRUE,
                   !.gameState["fuseInstalled"] = TRUE,
                   !.output = Append(@, "fuse installed"),
                   !.rooms["claims"].isDangerous = FALSE,
                   !.rooms["claims"].dangerMessage = "",
                   !.rooms["cafeteria"].isDangerous = FALSE,
                   !.rooms["cafeteria"].dangerMessage = "",
                   !.rooms["sub-basement"].isDangerous = TRUE,
                   !.rooms["sub-basement"].dangerMessage = electrified]
    ELSE IF g.gameState["powerRestored"]
    THEN addOutput(g, "power already restored")
    ELSE addOutput(g, "need the breaker panel")

\* the fuse effect: the content's closure and the one removeFuse re-attaches
\* are alike but for the literal they give the sub-basement (`electrified`)
fuseEffect(g, electrified) ==
    IF g.currentRoom = "servers" /\ ~g.gameState["powerRestored"]
    THEN [g EXCEPT !.gameState["powerRestored"] = TRUE,
                   !.gameState["fuseInstalled"] = TRUE,
                   !.output = Append(@, "fuse installed"),
                   !.inventory = splice(@, findIndex(@, "fuse")),
                   !.rooms["claims"].isDangerous = FALSE,
                   !.rooms["claims"].dangerMessage = "",
                   !.rooms["cafeteria"].isDangerous = FALSE,
                   !.rooms["cafeteria"].dangerMessage = "",
                   !.rooms["sub-basement"].isDangerous = TRUE,
                   !.rooms["sub-basement"].dangerMessage = electrified]
    ELSE IF g.gameState["powerRestored"]
    THEN addOutput(g, "power already restored")
    ELSE addOutput(g, "need the breaker panel")

\* an unlock item whose second use locks the door again
unlockEffect_toggles(g, roomId, flag) ==
    IF g.currentRoom = roomId /\ ~g.gameState[flag]
    THEN [g EXCEPT !.gameState[flag] = TRUE, !.output = Append(@, "unlocked")]
    ELSE IF g.gameState[flag]
    THEN [g EXCEPT !.gameState[flag] = FALSE, !.output = Append(@, "already unlocked")]
    ELSE addOutput(g, "nothing to unlock here")

\* an unlock effect: basement-key in claims, access-card in executive-hall,
\* lab-key in lab-hall
unlockEffect(g, roomId, flag) ==
    IF g.currentRoom = roomId /\ ~g.gameState[flag]
    THEN [g EXCEPT !.gameState[flag] = TRUE, !.output = Append(@, "unlocked")]
    ELSE IF g.gameState[flag]
    THEN addOutput(g, "already unlocked")
    ELSE addOutput(g, "nothing to unlock here")

\* extinguisher in the burning datacenter, wrench in the steaming mechanical room
makeSafeEffect(g, roomId, flag, itemId) ==
    IF g.currentRoom = roomId /\ g.rooms[g.currentRoom].isDangerous
    THEN [g EXCEPT !.output = Append(@, "made safe"),
                   !.rooms[g.currentRoom].isDangerous = FALSE,
                   !.rooms[g.currentRoom].dangerMessage = "",
                   !.gameState[flag] = TRUE,
                   !.inventory = splice(@, findIndex(@, itemId))]
    ELSE addOutput(g, "nothing to do here")

\* an elevator card that is swiped and taken but opens nothing
elevatorKeyEffect_opensNothing(g) ==
    IF g.currentRoom = "lobby" /\ g.gameState["powerRestored"]
    THEN [g EXCEPT !.output = Append(@, "elevator open"),
                   !.inventory = splice(@, findIndex(@, "elevator-key"))]
    ELSE IF g.gameState["elevatorAccess"]
    THEN addOutput(g, "already unlocked")
    ELSE IF ~g.gameState["powerRestored"]
    THEN addOutput(g, "elevator has no power")
    ELSE addOutput(g, "use this at the lobby elevator")

elevatorKeyEffect(g) ==
    IF g.currentRoom = "lobby" /\ g.gameState["powerRestored"]
    THEN [g EXCEPT !.gameState["elevatorUnlocked"] = TRUE,
                   !.gameState["elevatorAccess"] = TRUE,
                   !.output = Append(@, "elevator open"),
                   !.inventory = splice(@, findIndex(@, "elevator-key"))]
    ELSE IF g.gameState["elevatorAccess"]
    THEN addOutput(g, "already unlocked")
    ELSE IF ~g.gameState["powerRestored"]
    THEN addOutput(g, "elevator has no power")
    ELSE addOutput(g, "use this at the lobby elevator")

crowbarEffect(g) ==
    IF g.currentRoom = "storage" /\ ~g.gameState["storageOpened"]
    THEN [g EXCEPT !.gameState["storageOpened"] = TRUE,
                   !.gameState["cabinetMoved"] = TRUE,
                   !.output = Append(@, "cabinet pried open"),
                   !.rooms["storage"] =
                        addItem(addItem(addItem(@, gasmask), firstaid), adrenaline)]
    ELSE addOutput(g, "nothing to pry open")

\* a consumable's effect: the health and energy changes, in program order,
\* then the item leaves the inventory
consume(g, itemId, first, firstAmount, second, secondAmount) ==
    LET change(x, what, amount) ==
            IF what = "health" THEN modifyHealth(x, amount, FALSE)
            ELSE IF what = "energy" THEN modifyEnergy(x, amount, FALSE)
            ELSE x
    IN  With(change(g, first, firstAmount), LAMBDA g1 :
        With(change(g1, second, secondAmount), LAMBDA g2 :
        addOutput(spliceInventory(g2, itemId), "used")))

\* item.useEffect(game), by the name of the closure
useEffect(effect, g) ==
    CASE effect = "medkit" -> consume(g, "medkit", "health", 30, "none", 0)
      [] effect = "energy" -> consume(g, "energy", "energy", 40, "none", 0)
      [] effect = "painkillers" -> consume(g, "painkillers", "health", 20, "none", 0)
      [] effect = "coffee" -> consume(g, "coffee", "energy", 20, "none", 0)
      [] effect = "sedative" -> consume(g, "sedative", "health", 15, "energy", -30)
      [] effect = "adrenaline" -> consume(g, "adrenaline", "energy", 60, "health", -10)
      [] effect = "basement-key" -> unlockEffect(g, "claims", "basementUnlocked")
      [] effect = "access-card" -> unlockEffect(g, "executive-hall", "executiveUnlocked")
      [] effect = "lab-key" -> unlockEffect(g, "lab-hall", "labUnlocked")
      [] effect = "fuse" ->
            fuseEffect(g, "U+E2 U+161 U+A1 The water is ELECTRIFIED! You're being shocked!")
      [] effect = "fuse (re-attached)" ->
            fuseEffect(g, "U+26A1 The water is ELECTRIFIED! You're being shocked!")
      [] effect = "extinguisher" ->
            makeSafeEffect(g, "datacenter", "fireExtinguished", "extinguisher")
      [] effect = "wrench" -> makeSafeEffect(g, "mechanical", "mechanicalFixed", "wrench")
      [] effect = "elevator-key" -> elevatorKeyEffect(g)
      [] effect = "crowbar" -> crowbarEffect(g)
      [] OTHER -> g

\* the successful branch of Game.takeItem: the first item with that id
\* leaves the room for the end of the inventory, at the cost of 1 energy
moveToInventory(g, itemId) ==
    LET items == g.rooms[g.currentRoom].items
    IN  With([g EXCEPT !.rooms[g.currentRoom] = removeItem(@, itemId),
                       !.inventory = Append(@, items[findIndex(items, itemId)]),
                       !.output = Append(@, "you take")],
             LAMBDA g1 : modifyEnergy(g1, -1, FALSE))

\* Game.takeItem(itemId), with a variant that looks in the room before it
\* looks at the inventory size
takeItem_fullCheckLast(g, itemId) ==
    IF itemId = "" THEN addOutput(g, "take what?")
    ELSE IF hasItem(g.rooms[g.currentRoom].items, itemId)
    THEN moveToInventory(g, itemId)
    ELSE IF Len(g.inventory) >= maxInventorySize
    THEN addOutput(g, "inventory full")
    ELSE addOutput(g, "no such item here")

\* a take that fetches the elevator card out of the electrified water
takeItem_waterIgnored(g, itemId) ==
    IF itemId = "" THEN addOutput(g, "take what?")
    ELSE IF Len(g.inventory) >= maxInventorySize
    THEN addOutput(g, "inventory full")
    ELSE IF hasItem(g.rooms[g.currentRoom].items, itemId)
    THEN moveToInventory(g, itemId)
    ELSE addOutput(g, "no such item here")

takeItem(g, itemId) ==
    IF itemId = "" THEN addOutput(g, "take what?")
    ELSE IF Len(g.inventory) >= maxInventorySize
    THEN addOutput(g, "inventory full")
    ELSE IF /\ g.currentRoom = "sub-basement"
            /\ itemId = "elevator-key"
            /\ g.gameState["powerRestored"]
    THEN addOutput(g, "electrified water")
    ELSE IF hasItem(g.rooms[g.currentRoom].items, itemId)
    THEN moveToInventory(g, itemId)
    ELSE addOutput(g, "no such item here")

\* a drop that splices at findIndex' result without testing it for -1
dropItem_noFoundCheck(g, itemId) ==
    LET index == findIndex(g.inventory, itemId)
    IN  IF itemId = "" THEN addOutput(g, "drop what?")
        ELSE IF g.inventory # << >>
        THEN [g EXCEPT !.inventory = splice(@, index),
                       !.rooms[g.currentRoom] =
                            addItem(@, g.inventory[IF index = 0 THEN Len(g.inventory)
                                                   ELSE index]),
                       !.output = Append(@, "you drop")]
        ELSE addOutput(g, "you don't have that")

\* Game.dropItem(itemId)
dropItem(g, itemId) ==
    LET index == findIndex(g.inventory, itemId)
    IN  IF itemId = "" THEN addOutput(g, "drop what?")
        ELSE IF index # 0
        THEN [g EXCEPT !.inventory = splice(@, index),
                       !.rooms[g.currentRoom] = addItem(@, g.inventory[index]),
                       !.output = Append(@, "you drop")]
        ELSE addOutput(g, "you don't have that")

\* Game.useItem(itemId)
useItem(g, itemId) ==
    LET index == findIndex(g.inventory, itemId)
    IN  IF itemId = "" THEN addOutput(g, "use what?")
        ELSE IF index = 0 THEN addOutput(g, "you don't have that")
        ELSE IF ~g.inventory[index].canUse THEN addOutput(g, "can't use")
        ELSE IF g.inventory[index].useEffect # NULL
        THEN useEffect(g.inventory[index].useEffect, g)
        ELSE g

\* Game.examineItem(itemId), with a variant that finds the hatch behind a
\* cabinet nobody has opened
examineItem_hatchAlwaysThere(g, itemId) ==
    IF itemId = "" THEN addOutput(g, "examine what?")
    ELSE IF /\ itemId \in {"cabinet", "wall"}
            /\ g.currentRoom = "storage"
            /\ ~g.gameState["tunnelRevealed"]
    THEN [g EXCEPT !.gameState["tunnelRevealed"] = TRUE,
                   !.rooms["storage"].description = "hatch revealed",
                   !.output = Append(@, "path revealed")]
    ELSE IF \/ hasInInventory(g, itemId)
            \/ hasItem(g.rooms[g.currentRoom].items, itemId)
    THEN addOutput(g, "item description")
    ELSE addOutput(g, "you don't see that")

examineItem(g, itemId) ==
    IF itemId = "" THEN addOutput(g, "examine what?")
    ELSE IF /\ itemId \in {"cabinet", "wall"}
            /\ g.currentRoom = "storage"
            /\ g.gameState["cabinetMoved"]
            /\ ~g.gameState["tunnelRevealed"]
    THEN [g EXCEPT !.gameState["tunnelRevealed"] = TRUE,
                   !.rooms["storage"].description = "hatch revealed",
                   !.output = Append(@, "path revealed")]
    ELSE IF \/ hasInInventory(g, itemId)
            \/ hasItem(g.rooms[g.currentRoom].items, itemId)
    THEN addOutput(g, "item description")
    ELSE addOutput(g, "you don't see that")

\* the Item object Game.removeFuse creates: a fuse with the fuse effect
newFuse(g) ==
    [setUsable(Item("fuse"), "fuse (re-attached)") EXCEPT !.oid = g.created + 1]

\* Game.removeFuse, with a variant that hands out a fuse whether or not one
\* is installed
removeFuse_anotherFuse(g) ==
    IF g.currentRoom # "servers" THEN addOutput(g, "no fuse to remove here")
    ELSE [g EXCEPT !.gameState["powerRestored"] = FALSE,
                   !.gameState["fuseInstalled"] = FALSE,
                   !.gameState["elevatorAccess"] = FALSE,
                   !.rooms["claims"] =
                       setDangerous(@, "U+1F480 The toxic fumes are hurting you!"),
                   !.rooms["cafeteria"] =
                       setDangerous(@, "U+1F9A0 Toxic mold spores from spoiled food fill the air! You're choking!"),
                   !.rooms["sub-basement"].isDangerous = FALSE,
                   !.rooms["sub-basement"].dangerMessage = "",
                   !.created = @ + 1,
                   !.inventory = Append(@, newFuse(g)),
                   !.output = @ \o <<"fuse removed", "fuse pocketed">>]

removeFuse(g) ==
    IF g.currentRoom # "servers" THEN addOutput(g, "no fuse to remove here")
    ELSE IF ~g.gameState["fuseInstalled"] THEN addOutput(g, "no fuse installed")
    ELSE [g EXCEPT !.gameState["powerRestored"] = FALSE,
                   !.gameState["fuseInstalled"] = FALSE,
                   !.gameState["elevatorAccess"] = FALSE,
                   !.rooms["claims"] =
                       setDangerous(@, "U+1F480 The toxic fumes are hurting you!"),
                   !.rooms["cafeteria"] =
                       setDangerous(@, "U+1F9A0 Toxic mold spores from spoiled food fill the air! You're choking!"),
                   !.rooms["sub-basement"].isDangerous = FALSE,
                   !.rooms["sub-basement"].dangerMessage = "",
                   !.created = @ + 1,
                   !.inventory = Append(@, newFuse(g)),
                   !.output = @ \o <<"fuse removed", "fuse pocketed">>]

\* Game.processCheatCode(code)
keyItems == <<"basement-key", "elevator-key", "access-card", "lab-key">>

\* the keys of `cheat keys` that are not yet carried, in the order of keyItems
missingKeys(g) == SelectSeq(keyItems, LAMBDA id : ~hasInInventory(g, id))

cheatKeys(g) ==
    LET missing == missingKeys(g)
    IN  [g EXCEPT !.created = @ + Len(missing),
                  !.inventory = @ \o
                      [k \in 1..Len(missing) |->
                          [id |-> missing[k], canUse |-> FALSE,
                           useEffect |-> NULL, oid |-> g.created + k]],
                  !.output = Append(@, "cheat")]

processCheatCode(g, code) ==
    CASE code = "" -> addOutput(g, "cheat list")
      [] code = "fullmap" ->
            [g EXCEPT !.gameState["hasFullMap"] = TRUE, !.output = Append(@, "cheat")]
      [] code = "god" ->
            [g EXCEPT !.gameState["godMode"] = ~@, !.output = Append(@, "cheat")]
      [] code = "heal" ->
            [g EXCEPT !.health = maxHealth, !.energy = maxEnergy,
                      !.output = Append(@, "cheat")]
      [] code = "keys" -> cheatKeys(g)
      [] code = "reveal" ->
            [g EXCEPT !.rooms = [r \in RoomIds |-> [g.rooms[r] EXCEPT !.visited = TRUE]],
                      !.output = Append(@, "cheat")]
      [] OTHER -> addOutput(g, "unknown cheat")

\* Game.processCommand(command): command is the trimmed, lower-cased input,
\* action its first word and target the rest
Directions == {"north", "south", "east", "west", "up", "down"}

directionMap(action) ==
    CASE action = "n" -> "north" [] action = "s" -> "south"
      [] action = "e" -> "east"  [] action = "w" -> "west"
      [] action = "u" -> "up"    [] action = "d" -> "down"
      [] OTHER -> action

KonamiRest == "up down down left right left right b a"

\* a dispatch whose cheat verb works before the Konami code was entered
dispatch_cheatsAlwaysOn(g, action, target) ==
    IF action = "up" /\ target = KonamiRest
    THEN IF ~g.cheatsUnlocked
         THEN [g EXCEPT !.cheatsUnlocked = TRUE, !.output = Append(@, "cheats unlocked")]
         ELSE addOutput(g, "cheats already unlocked")
    ELSE IF directionMap(action) \in Directions
    THEN movePlayer(g, directionMap(action))
    ELSE IF action \in {"take", "get", "pickup"} THEN takeItem(g, target)
    ELSE IF action = "drop" THEN dropItem(g, target)
    ELSE IF action = "use" THEN useItem(g, target)
    ELSE IF action \in {"examine", "inspect", "x"} THEN examineItem(g, target)
    ELSE IF action \in {"inventory", "inv", "i"} THEN addOutput(g, "inventory")
    ELSE IF action \in {"escape", "climb"} THEN attemptEscape(g)
    ELSE IF action = "remove" /\ target = "fuse" THEN removeFuse(g)
    ELSE IF action \in {"look", "l"} THEN displayRoom(g, g.currentRoom)
    ELSE IF action \in {"help", "h", "?", "stats", "status", "exits", "map",
                        "m", "tips", "debug"}
    THEN addOutput(g, "info")
    ELSE IF action = "cheat" THEN processCheatCode(g, target)
    ELSE addOutput(g, "I don't understand")

\* a dispatch whose `look` prints the room without entering it
dispatch_lookOnlyPrints(g, action, target) ==
    IF action = "up" /\ target = KonamiRest
    THEN IF ~g.cheatsUnlocked
         THEN [g EXCEPT !.cheatsUnlocked = TRUE, !.output = Append(@, "cheats unlocked")]
         ELSE addOutput(g, "cheats already unlocked")
    ELSE IF directionMap(action) \in Directions
    THEN movePlayer(g, directionMap(action))
    ELSE IF action \in {"take", "get", "pickup"} THEN takeItem(g, target)
    ELSE IF action = "drop" THEN dropItem(g, target)
    ELSE IF action = "use" THEN useItem(g, target)
    ELSE IF action \in {"examine", "inspect", "x"} THEN examineItem(g, target)
    ELSE IF action \in {"inventory", "inv", "i"} THEN addOutput(g, "inventory")
    ELSE IF action \in {"escape", "climb"} THEN attemptEscape(g)
    ELSE IF action = "remove" /\ target = "fuse" THEN removeFuse(g)
    ELSE IF action \in {"look", "l"}
    THEN [g EXCEPT !.output = @ \o roomLines(g, g.currentRoom)]
    ELSE IF action \in {"help", "h", "?", "stats", "status", "exits", "map",
                        "m", "tips", "debug"}
    THEN addOutput(g, "info")
    ELSE IF action = "cheat" /\ g.cheatsUnlocked THEN processCheatCode(g, target)
    ELSE addOutput(g, "I don't understand")

dispatch(g, action, target) ==
    IF action = "up" /\ target = KonamiRest
    THEN IF ~g.cheatsUnlocked
         THEN [g EXCEPT !.cheatsUnlocked = TRUE, !.output = Append(@, "cheats unlocked")]
         ELSE addOutput(g, "cheats already unlocked")
    ELSE IF directionMap(action) \in Directions
    THEN movePlayer(g, directionMap(action))
    ELSE IF action \in {"take", "get", "pickup"} THEN takeItem(g, target)
    ELSE IF action = "drop" THEN dropItem(g, target)
    ELSE IF action = "use" THEN useItem(g, target)
    ELSE IF action \in {"examine", "inspect", "x"} THEN examineItem(g, target)
    ELSE IF action \in {"inventory", "inv", "i"} THEN addOutput(g, "inventory")
    ELSE IF action \in {"escape", "climb"} THEN attemptEscape(g)
    ELSE IF action = "remove" /\ target = "fuse" THEN removeFuse(g)
    ELSE IF action \in {"look", "l"} THEN displayRoom(g, g.currentRoom)
    ELSE IF action \in {"help", "h", "?", "stats", "status", "exits", "map",
                        "m", "tips", "debug"}
    THEN addOutput(g, "info")
    ELSE IF action = "cheat" /\ g.cheatsUnlocked THEN processCheatCode(g, target)
    ELSE addOutput(g, "I don't understand")

processCommand(g, action, target) ==
    With(addOutput(g, "> command"), LAMBDA g1 : dispatch(g1, action, target))

\* the keydown listener on Enter, with a variant that accepts commands
\* from the escaped
keydownEnter_wonMayAct(g, action, target) ==
    IF action # "" /\ ~g.isDead
    THEN processCommand(g, action, target) ELSE g

keydownEnter(g, action, target) ==
    IF action # "" /\ ~g.isDead /\ ~g.hasWon
    THEN processCommand(g, action, target) ELSE g

\* a hazard that no item protects from
tickDanger_noProtection(g) ==
    LET room == g.rooms[g.currentRoom]
        damage == IF g.currentRoom = "sub-basement" THEN 10
                  ELSE IF g.currentRoom = "research-lab" THEN 15 ELSE 5
    IN  IF room.isDangerous
        THEN With(modifyHealth(g, -damage, TRUE), LAMBDA h :
                IF h.health > 0
                THEN [h EXCEPT !.lastDamageMessage = room.dangerMessage]
                ELSE h)
        ELSE [g EXCEPT !.lastDamageMessage = NULL]

\* a hazard that warns without doing damage
tickDanger_warnsOnly(g) ==
    LET room == g.rooms[g.currentRoom]
    IN  IF room.isDangerous
        THEN [g EXCEPT !.lastDamageMessage = room.dangerMessage]
        ELSE [g EXCEPT !.lastDamageMessage = NULL]

\* the interval callback of Game.startHealthTick: the hazard of a dangerous
\* room
tickDanger(g) ==
    LET room == g.rooms[g.currentRoom]
        hasGasMask == hasInInventory(g, "gasmask")
        hasHazmat == hasInInventory(g, "hazmat-suit")
        isToxicRoom == g.currentRoom = "claims" /\ ~g.gameState["powerRestored"]
        isBiohazard == g.currentRoom = "research-lab"
        isProtected == (isToxicRoom /\ hasGasMask) \/ (isBiohazard /\ hasHazmat)
        damage == IF g.currentRoom = "sub-basement" THEN 10
                  ELSE IF g.currentRoom = "research-lab" THEN 15 ELSE 5
    IN  IF room.isDangerous
        THEN IF ~isProtected
             THEN With(modifyHealth(g, -damage, TRUE), LAMBDA h :
                    IF h.health > 0
                    THEN [h EXCEPT !.lastDamageMessage = room.dangerMessage]
                    ELSE h)
             ELSE g
        ELSE [g EXCEPT !.lastDamageMessage = NULL]

\* the energy drain of the maze-like rooms, with a variant that counts the
\* drain as a turn
tickDrain_countsTurn(g) ==
    IF g.currentRoom \in Disorienting
    THEN With(modifyEnergy([g EXCEPT !.turns = @ + 1], -2, TRUE), LAMBDA e :
           IF e.energy <= 0
           THEN modifyHealth([e EXCEPT !.lastEnergyWarning = "collapse"], -15, TRUE)
           ELSE e)
    ELSE [g EXCEPT !.lastEnergyWarning = NULL]

tickDrain(g) ==
    IF g.currentRoom \in Disorienting
    THEN With(modifyEnergy(g, -2, TRUE), LAMBDA e :
           IF e.energy <= 0
           THEN modifyHealth([e EXCEPT !.lastEnergyWarning = "collapse"], -15, TRUE)
           ELSE e)
    ELSE [g EXCEPT !.lastEnergyWarning = NULL]

\* a tick without the natural energy recovery
tickRecover_none(g) == g

\* the natural energy recovery
tickRecover(g) ==
    IF g.energy < maxEnergy
    THEN [g EXCEPT !.energy = Min(maxEnergy, g.energy + 1)]
    ELSE g

\* the whole callback, with a variant that runs in a terminal state too
healthTick_noTerminalCheck(g) ==
    With(tickDanger(g), LAMBDA g1 :
    With(tickDrain(g1), LAMBDA g2 : tickRecover(g2)))

healthTick(g) ==
    IF g.isDead \/ g.hasWon THEN g
    ELSE With(tickDanger(g), LAMBDA g1 :
         With(tickDrain(g1), LAMBDA g2 : tickRecover(g2)))


(***************************************************************************)
(* The running game.  The variables are the fields of the one Game object  *)
(* (with the graph's rooms); `steps` counts the inputs handled since the   *)
(* exploration began.  An input is a command line submitted with Enter, or *)
(* one firing of the interval timer.                                       *)
(***************************************************************************)
VARIABLES currentRoom, health, energy, inventory, lastDamageMessage,
          lastEnergyWarning, cheatsUnlocked, turns, isDead, hasWon,
          gameState, rooms, output, gameOvers, victories, created, steps,
          graph, returned

\* graph is the AdventureGraph object and returned the name of the method
\* called last on it with what the call returned or threw
vars == <<currentRoom, health, energy, inventory, lastDamageMessage,
          lastEnergyWarning, cheatsUnlocked, turns, isDead, hasWon,
          gameState, rooms, output, gameOvers, victories, created, steps,
          graph, returned>>

\* the Game object in the current state
this ==
    [currentRoom |-> currentRoom, health |-> health, energy |-> energy,
     inventory |-> inventory, lastDamageMessage |-> lastDamageMessage,
     lastEnergyWarning |-> lastEnergyWarning,
     cheatsUnlocked |-> cheatsUnlocked, turns |-> turns, isDead |-> isDead,
     hasWon |-> hasWon, gameState |-> gameState, rooms |-> rooms,
     output |-> output, gameOvers |-> gameOvers, victories |-> victories,
     created |-> created]

\* the Game object as the next input finds it
atInput == [this EXCEPT !.output = << >>]

\* the Game object in the next state is g
Becomes(g) ==
    /\ currentRoom' = g.currentRoom
    /\ health' = g.health
    /\ energy' = g.energy
    /\ inventory' = g.inventory
    /\ lastDamageMessage' = g.lastDamageMessage
    /\ lastEnergyWarning' = g.lastEnergyWarning
    /\ cheatsUnlocked' = g.cheatsUnlocked
    /\ turns' = g.turns
    /\ isDead' = g.isDead
    /\ hasWon' = g.hasWon
    /\ gameState' = g.gameState
    /\ rooms' = g.rooms
    /\ output' = g.output
    /\ gameOvers' = g.gameOvers
    /\ victories' = g.victories
    /\ created' = g.created

\* one input handled by the game: <<action, target>> is a command line,
\* <<"tick">> a firing of the timer.  g.output restarts with each input.
Input(g, in) ==
    With([g EXCEPT !.output = << >>], LAMBDA g0 :
        IF Len(in) = 1 THEN healthTick(g0)
        ELSE keydownEnter(g0, in[1], in[2]))

\* a sequence of inputs handled one after the other: the first half of
\* them, then the rest
RECURSIVE Run(_, _)
Run(g, inputs) ==
    LET n == Len(inputs)
        half == n \div 2
    IN  IF n = 0 THEN g
        ELSE IF n = 1 THEN Input(g, inputs[1])
        ELSE With(Run(g, SubSeq(inputs, 1, half)),
                  LAMBDA next : Run(next, SubSeq(inputs, half + 1, n)))

Repeat(in, n) == [k \in 1..n |-> in]

\* Play-throughs from the start of the game that the exploration begins
\* after: no input at all; a round that fills the inventory and ends in the
\* cafeteria; six ticks in the research lab with the adrenaline in hand;
\* the same and then the walk to the roof; a walk to the breaker panel with
\* the fuse; the fuse installed with a full inventory; and a player who
\* looked around the archive until exhausted.
FreshGame == << >>

FullPack ==
    << <<"take", "flashlight">>, <<"take", "coffee">>,
       <<"north", "">>, <<"take", "energy">>,
       <<"west", "">>, <<"take", "energy">>, <<"take", "medkit">>,
       <<"take", "basement-key">>,
       <<"north", "">>, <<"take", "hazmat-suit">>, <<"take", "batteries">>,
       <<"take", "fuse">>,
       <<"south", "">>, <<"east", "">>, <<"north", "">>, <<"take", "energy">> >>

HurtInLab ==
    << <<"north", "">>, <<"east", "">>, <<"east", "">>, <<"east", "">>,
       <<"east", "">>, <<"take", "adrenaline">> >>
    \o Repeat(<<"tick">>, 6)

HurtOnRoof ==
    HurtInLab
    \o << <<"west", "">>, <<"west", "">>, <<"west", "">>, <<"west", "">>,
          <<"up", "">> >>

AtBreakerPanel ==
    << <<"north", "">>, <<"west", "">>, <<"north", "">>, <<"take", "fuse">>,
       <<"south", "">>, <<"east", "">>, <<"south", "">>, <<"east", "">> >>

FullPackPowerOn ==
    FullPack
    \o << <<"south", "">>, <<"south", "">>, <<"east", "">>,
          <<"use", "fuse">>, <<"take", "batteries">> >>

WornOut == << <<"south", "">> >> \o Repeat(<<"look", "">>, 49)

\* the crowbar fetched from the garage and used on the storage cabinet;
\* then the gas mask taken from it and worn into the claims room, and on
\* into the research lab; and the god-mode cheat switched on in claims
CabinetOpen ==
    << <<"north", "">>, <<"north", "">>, <<"north", "">>, <<"take", "crowbar">>,
       <<"south", "">>, <<"south", "">>, <<"south", "">>, <<"west", "">>,
       <<"use", "crowbar">> >>

MaskedInClaims ==
    CabinetOpen
    \o << <<"take", "gasmask">>, <<"east", "">>, <<"north", "">>, <<"east", "">> >>

MaskedInLab ==
    MaskedInClaims \o << <<"east", "">>, <<"east", "">>, <<"east", "">> >>

GodInClaims ==
    << <<"north", "">>, <<"east", "">>, <<"up", KonamiRest>>, <<"cheat", "god">> >>

\* the basement key carried from the break room to the door in claims
KeyAtBasementDoor ==
    << <<"north", "">>, <<"west", "">>, <<"take", "basement-key">>,
       <<"east", "">>, <<"east", "">> >>

\* the main path of the README, up to the roof; and the same up to the
\* swipe of the elevator card, followed by the walk back to the breaker panel
MainPath ==
    << <<"north", "">>, <<"west", "">>, <<"take", "basement-key">>,
       <<"north", "">>, <<"take", "fuse">>, <<"south", "">>, <<"east", "">>,
       <<"east", "">>, <<"use", "basement-key">>, <<"down", "">>,
       <<"down", "">>, <<"take", "elevator-key">>, <<"up", "">>, <<"up", "">>,
       <<"south", "">>, <<"use", "fuse">>, <<"north", "">>, <<"west", "">>,
       <<"use", "elevator-key">>, <<"up", "">>, <<"escape", "">> >>

MainPathToRoof == SubSeq(MainPath, 1, 20)

ElevatorOpenAtPanel ==
    SubSeq(MainPath, 1, 19) \o << <<"south", "">>, <<"east", "">> >>

\* the fuse installed and the walk down to the flooded sub-basement, where
\* the elevator card lies; and the same with the fuse removed again first
FloodedKey ==
    { AtBreakerPanel \o << <<"use", "fuse">> >> \o pulled
            \o << <<"north", "">>, <<"down", "">>, <<"down", "">> >> :
        pulled \in { << >>, << <<"remove", "fuse">> >> } }

Prefixes ==
    { FreshGame, FullPack, HurtInLab, HurtOnRoof, AtBreakerPanel,
      FullPackPowerOn, WornOut, CabinetOpen, MaskedInClaims, MaskedInLab,
      GodInClaims, KeyAtBasementDoor, MainPathToRoof, ElevatorOpenAtPanel }
    \cup FloodedKey

\* the Game object is g
Begins(g) ==
    /\ currentRoom = g.currentRoom
    /\ health = g.health
    /\ energy = g.energy
    /\ inventory = g.inventory
    /\ lastDamageMessage = g.lastDamageMessage
    /\ lastEnergyWarning = g.lastEnergyWarning
    /\ cheatsUnlocked = g.cheatsUnlocked
    /\ turns = g.turns
    /\ isDead = g.isDead
    /\ hasWon = g.hasWon
    /\ gameState = g.gameState
    /\ rooms = g.rooms
    /\ output = g.output
    /\ gameOvers = g.gameOvers
    /\ victories = g.victories
    /\ created = g.created

\* new Game(initializeGame(), ...) and init(), then one of the play-throughs
Init ==
    /\ steps = 0
    /\ graph = contentGraph
    /\ returned = <<"none", NULL>>
    /\ \E prefix \in Prefixes :
        \E g \in { [Run(init(Game), prefix) EXCEPT !.output = << >>] } : Begins(g)

\* the game handles the input `in` and the step is counted
Handle(in) ==
    /\ steps' = steps + 1
    /\ UNCHANGED <<graph, returned>>
    /\ \E g \in { Input(this, in) } : Becomes(g)

idsOf(items) == { items[k].id : k \in 1..Len(items) }

\* the commands the player submits with Enter
Move ==
    /\ steps < MaxSteps
    /\ \E direction \in Directions \cup {"n", "d"} : Handle(<<direction, "">>)

Take ==
    /\ steps < MaxSteps
    /\ \E itemId \in idsOf(rooms[currentRoom].items)
                        \cup {"elevator-key", "nothing", ""} :
            Handle(<<"take", itemId>>)

Drop ==
    /\ steps < MaxSteps
    /\ \E itemId \in idsOf(inventory) \cup {"nothing"} : Handle(<<"drop", itemId>>)

Use ==
    /\ steps < MaxSteps
    /\ \E itemId \in idsOf(inventory) \cup {"nothing"} : Handle(<<"use", itemId>>)

Examine ==
    /\ steps < MaxSteps
    /\ \E itemId \in idsOf(inventory) \cup {"cabinet", "nothing"} :
            Handle(<<"examine", itemId>>)

Escape ==
    /\ steps < MaxSteps
    /\ Handle(<<"escape", "">>)

RemoveFuse ==
    /\ steps < MaxSteps
    /\ Handle(<<"remove", "fuse">>)

Look ==
    /\ steps < MaxSteps
    /\ Handle(<<"look", "">>)

Konami ==
    /\ steps < MaxSteps
    /\ Handle(<<"up", KonamiRest>>)

Cheat ==
    /\ steps < MaxSteps
    /\ \E code \in {"", "fullmap", "god", "heal", "keys", "reveal", "xyzzy"} :
            Handle(<<"cheat", code>>)

Info ==
    /\ steps < MaxSteps
    /\ \E action \in {"inventory", "help", "stats", "exits", "map"} :
            Handle(<<action, "">>)

Unrecognised ==
    /\ steps < MaxSteps
    /\ \E in \in { <<"dance", "">>, <<"remove", "batteries">> } : Handle(in)

\* the interval timer fires
Tick ==
    /\ steps < MaxSteps
    /\ Handle(<<"tick">>)

Next ==
    \/ Move
    \/ Take
    \/ Drop
    \/ Use
    \/ Examine
    \/ Escape
    \/ RemoveFuse
    \/ Look
    \/ Konami
    \/ Cheat
    \/ Info
    \/ Unrecognised
    \/ Tick

Spec == Init /\ [][Next]_vars

\* The player stops typing: only the interval timer of startHealthTick
\* runs, every two seconds for as long as the page is open, which is what
\* the weak fairness of the callback stands for.  No command is counted.
IdleTick ==
    /\ UNCHANGED <<steps, graph, returned>>
    /\ \E g \in { Input(this, <<"tick">>) } : Becomes(g)

SpecIdle == Init /\ [][IdleTick]_vars /\ WF_vars(IdleTick)


(***************************************************************************)
(* A graph under construction: the calls a content script or a debug view  *)
(* makes on an AdventureGraph, with no game running on it.                 *)
(***************************************************************************)
\* ids of the rooms a script creates, the empty string among them; no
\* room is ever created with the id "void"
PoolIds == {"", "a", "b"}

\* a sequence of calls made on the graph one after the other
RECURSIVE Calls(_, _)
Calls(G, calls) ==
    IF calls = << >> THEN G
    ELSE LET call == Head(calls)
             after == CASE call[1] = "addRoom" ->
                                addRoom(G, RoomObject(Room(call[2]), << >>)).graph
                        [] call[1] = "addExit" ->
                                roomAddExit(G, call[2], call[3], call[4]).graph
                        [] call[1] = "setStartRoom" -> setStartRoom(G, call[2]).graph
         IN  With(after, LAMBDA G1 : Calls(G1, Tail(calls)))

\* a room with a broken exit and a second room without exits
TwoRooms ==
    Calls(AdventureGraph,
          << <<"addRoom", "a">>, <<"addExit", "a", "north", "void">>,
             <<"addRoom", "b">> >>)

StartGraphs == { AdventureGraph, contentGraph, TwoRooms }

gameVars ==
    <<currentRoom, health, energy, inventory, lastDamageMessage,
      lastEnergyWarning, cheatsUnlocked, turns, isDead, hasWon, gameState,
      rooms, output, gameOvers, victories, created>>

InitGraph ==
    /\ steps = 0
    /\ Begins(init(Game))
    /\ graph \in StartGraphs
    /\ returned = <<"none", NULL>>

\* the call made: the graph and the value it leaves
Called(method, call) ==
    /\ steps' = steps + 1
    /\ graph' = call.graph
    /\ returned' = <<method, call.returned>>
    /\ UNCHANGED gameVars

AddRoom ==
    /\ steps < MaxSteps
    /\ \E room \in { RoomObject(Room(id), << >>) : id \in PoolIds } \cup {NotARoom} :
        \E call \in { addRoom(graph, room) } : Called("addRoom", call)

AddExit ==
    /\ steps < MaxSteps
    /\ \E roomId \in { id \in PoolIds \cup {"freedom"} : has(graph, id) },
          direction \in {"north", "south"},
          destinationId \in PoolIds \cup {"void"} :
        \E call \in { roomAddExit(graph, roomId, direction, destinationId) } :
            Called("addExit", call)

SetStartRoom ==
    /\ steps < MaxSteps
    /\ \E roomId \in PoolIds \cup {"void", "roof"} :
        \E call \in { setStartRoom(graph, roomId) } : Called("setStartRoom", call)

Validate ==
    /\ steps < MaxSteps
    /\ \E call \in { validate(graph) } : Called("validate", call)

GetAllRooms ==
    /\ steps < MaxSteps
    /\ \E call \in { getAllRooms(graph) } : Called("getAllRooms", call)

GetStats ==
    /\ steps < MaxSteps
    /\ \E call \in { getStats(graph) } : Called("getStats", call)

GenerateASCIIMap ==
    /\ steps < MaxSteps
    /\ \E call \in { generateASCIIMap(graph) } : Called("generateASCIIMap", call)

GetGraphData ==
    /\ steps < MaxSteps
    /\ \E call \in { getGraphData(graph) } : Called("getGraphData", call)

NextGraph ==
    \/ AddRoom
    \/ AddExit
    \/ SetStartRoom
    \/ Validate
    \/ GetAllRooms
    \/ GetStats
    \/ GenerateASCIIMap
    \/ GetGraphData

SpecGraph == InitGraph /\ [][NextGraph]_vars


(***************************************************************************)
(* The engine of game.js on the content of gameData.js: the walk through   *)
(* the rooms and the interval timer.  The Game object has the fields of    *)
(* the latest variant that game.js also has; the items of the rooms are    *)
(* left out, no command that takes one being explored here.                *)
(***************************************************************************)
\* the addExit calls of gameData.js, room by room
gameDataExits ==
    [r \in RoomIds |->
        CASE r = "security" -> [north |-> "lobby", east |-> "servers",
                                south |-> "archive", west |-> "storage"]
          [] r = "lobby" -> [south |-> "security", east |-> "claims",
                             west |-> "breakroom", north |-> "cafeteria",
                             up |-> "roof"]
          [] r = "claims" -> [west |-> "lobby", south |-> "servers",
                              east |-> "it-office", north |-> "executive-hall",
                              down |-> "basement"]
          [] r = "servers" -> [west |-> "security", north |-> "claims",
                               east |-> "datacenter"]
          [] r = "datacenter" -> [west |-> "servers", south |-> "mechanical"]
          [] r = "breakroom" -> [east |-> "lobby", north |-> "supply"]
          [] r = "supply" -> [south |-> "breakroom"]
          [] r = "executive" -> [west |-> "executive-hall"]
          [] r = "executive-hall" -> [east |-> "executive", south |-> "claims",
                                      north |-> "boardroom"]
          [] r = "boardroom" -> [south |-> "executive-hall"]
          [] r = "it-office" -> [west |-> "claims", east |-> "lab-hall"]
          [] r = "lab-hall" -> [west |-> "it-office", east |-> "research-lab"]
          [] r = "research-lab" -> [west |-> "lab-hall"]
          [] r = "cafeteria" -> [south |-> "lobby", north |-> "garage"]
          [] r = "garage" -> [south |-> "cafeteria", down |-> "tunnel"]
          [] r = "storage" -> [east |-> "security"]
          [] r = "archive" -> [north |-> "security", east |-> "mechanical"]
          [] r = "mechanical" -> [west |-> "archive", north |-> "datacenter"]
          [] r = "tunnel" -> [up |-> "garage", down |-> "sub-basement"]
          [] r = "sub-basement" -> [up |-> "tunnel"]
          [] r = "basement" -> [up |-> "claims"]
          [] r = "roof" -> [down |-> "lobby"]
          [] OTHER -> << >>]

\* the setDangerous calls of gameData.js
gameDataDanger ==
    [r \in RoomIds |->
        CASE r = "claims"       -> "The toxic fumes are hurting you!"
          [] r = "datacenter"   -> "The smoke and heat are damaging you!"
          [] r = "mechanical"   -> "Steam vents scald you! The heat is unbearable!"
          [] r = "research-lab" -> "Toxic chemicals are burning your skin and lungs!"
          [] r = "sub-basement" -> "The electrified ice-cold water is deadly!"
          [] r = "basement"     -> "The water is electrified! You're being shocked!"
          [] OTHER              -> NULL]

\* game.js, Game.constructor on the graph of gameData.js
gameJs_Game ==
    [Game EXCEPT
        !.rooms = [r \in RoomIds |->
                      IF gameDataDanger[r] # NULL
                      THEN setDangerous(Room(r), gameDataDanger[r])
                      ELSE Room(r)],
        !.gameState = [f \in FlagNames \ {"hasFullMap", "godMode", "cabinetMoved",
                                          "tunnelRevealed"} |-> FALSE]]

\* game.js, Game.die
gameJs_die(g) ==
    addOutput([g EXCEPT !.isDead = TRUE, !.gameOvers = @ + 1], "GAME OVER")

\* game.js, Game.modifyHealth
gameJs_modifyHealth(g, amount) ==
    With([g EXCEPT !.health = Max(0, Min(maxHealth, g.health + amount))],
         LAMBDA g1 : IF g1.health <= 0 /\ ~g1.isDead THEN gameJs_die(g1)
                     ELSE IF amount < 0 THEN addOutput(g1, "damage")
                     ELSE IF amount > 0 THEN addOutput(g1, "heal")
                     ELSE g1)

\* game.js, Game.modifyEnergy
gameJs_modifyEnergy(g, amount) ==
    With([g EXCEPT !.energy = Max(0, Min(maxEnergy, g.energy + amount))],
         LAMBDA g1 : IF g1.energy <= 0 /\ amount < 0
                     THEN addOutput(g1, "exhausted") ELSE g1)

\* game.js, Game.displayRoom
gameJs_displayRoom(g, roomId) ==
    IF roomId = NULL THEN g
    ELSE With([g EXCEPT !.turns = @ + 1,
                        !.rooms[roomId].visited = TRUE,
                        !.output = @ \o <<"title", "description", "exits">>],
              LAMBDA g1 : IF g1.turns > 1 THEN gameJs_modifyEnergy(g1, -2) ELSE g1)

\* game.js, Game.init
gameJs_init(g) == [gameJs_displayRoom(g, g.currentRoom) EXCEPT !.output = << >>]

\* game.js, Game.movePlayer: Room.getExit gives exits[direction] or null
gameJs_movePlayer(g, direction) ==
    LET destinationId == getExit(gameDataExits[g.currentRoom], direction)
    IN  IF destinationId = NULL \/ destinationId \notin RoomIds
        THEN addOutput(g, "can't go")
        ELSE With([g EXCEPT !.output = Append(@, "you head"),
                            !.currentRoom = destinationId],
                  LAMBDA g1 : gameJs_displayRoom(g1, destinationId))

\* game.js, the callback of Game.startHealthTick
gameJs_healthTick(g) ==
    IF g.isDead \/ g.hasWon THEN g
    ELSE LET room == g.rooms[g.currentRoom]
             isProtected ==
                \/ /\ g.currentRoom = "claims" /\ ~g.gameState["powerRestored"]
                   /\ hasInInventory(g, "gasmask")
                \/ /\ g.currentRoom = "research-lab"
                   /\ hasInInventory(g, "hazmat-suit")
             damage == IF g.currentRoom = "subbasement" THEN 10 ELSE 5
         IN  With(IF room.isDangerous /\ ~isProtected
                  THEN With(gameJs_modifyHealth(g, -damage),
                            LAMBDA g1 : IF g1.health > 0
                                        THEN addOutput(g1, "danger") ELSE g1)
                  ELSE g,
             LAMBDA g2 :
             With(IF g2.currentRoom \in {"archive", "tunnel"}
                  THEN With(gameJs_modifyEnergy(g2, -2),
                       LAMBDA g3 :
                       With(IF g3.energy > 0 /\ g3.energy <= 20
                            THEN addOutput(g3, "disorienting") ELSE g3,
                       LAMBDA g4 :
                            IF g4.energy <= 0
                            THEN gameJs_modifyHealth(addOutput(g4, "collapse"), -15)
                            ELSE g4))
                  ELSE g2,
             LAMBDA g5 :
                  IF g5.energy < maxEnergy
                  THEN [g5 EXCEPT !.energy = Min(maxEnergy, @ + 1)]
                  ELSE g5))

\* the rooms walked through one after the other from the start: the first
\* half of the directions, then the rest
RECURSIVE gameJs_walk(_, _)
gameJs_walk(g, directions) ==
    LET n == Len(directions)
    IN  IF n = 0 THEN g
        ELSE IF n = 1 THEN gameJs_movePlayer([g EXCEPT !.output = << >>], directions[1])
        ELSE With(gameJs_walk(g, SubSeq(directions, 1, n \div 2)),
                  LAMBDA next : gameJs_walk(next, SubSeq(directions, n \div 2 + 1, n)))

\* the walks the exploration begins after: none, to the tunnel above the
\* flooded sub-basement, into the sub-basement, to the claims department,
\* to the data center, to the archive
gameJs_Walks ==
    { << >>,
      <<"north", "north", "north", "down">>,
      <<"north", "north", "north", "down", "down">>,
      <<"north", "east">>,
      <<"east", "east">>,
      <<"south">> }

InitGameJs ==
    /\ steps = 0
    /\ graph = contentGraph
    /\ returned = <<"none", NULL>>
    /\ \E walk \in gameJs_Walks :
        \E g \in { [gameJs_walk(gameJs_init(gameJs_Game), walk)
                        EXCEPT !.output = << >>] } : Begins(g)

\* game.js handles a direction typed by the player, or a firing of the timer
GameJsMove ==
    /\ steps < MaxSteps
    /\ ~isDead /\ ~hasWon
    /\ steps' = steps + 1
    /\ UNCHANGED <<graph, returned>>
    /\ \E direction \in Directions :
        \E g \in { gameJs_movePlayer(atInput, direction) } : Becomes(g)

GameJsTick ==
    /\ steps < MaxSteps
    /\ steps' = steps + 1
    /\ UNCHANGED <<graph, returned>>
    /\ \E g \in { gameJs_healthTick(atInput) } : Becomes(g)

NextGameJs == GameJsMove \/ GameJsTick

SpecGameJs == InitGameJs /\ [][NextGameJs]_vars


(***************************************************************************)
(* Properties.                                                             *)
(***************************************************************************)
\* the lines the last input added to the output element
Lines(out) == { out[k] : k \in 1..Len(out) }

Terminal == isDead \/ hasWon

\* C1: in every reachable state health is within 0..maxHealth and energy is
\* within 0..maxEnergy.
C1_HealthEnergyInRange ==
    /\ health \in 0..maxHealth
    /\ energy \in 0..maxEnergy

\* a healing item was used at full health, and health stayed at maxHealth
C1_HealedAtFullHealth ==
    /\ steps > 0
    /\ health = maxHealth
    /\ "heal" \in Lines(output)

\* C2: at the end of every command and every tick, isDead holds exactly
\* when health is 0.
C2_DeadIffNoHealth == isDead <=> (health = 0)

\* the input just handled took the last of the health and killed the player
C2_JustDied ==
    /\ isDead
    /\ health = 0
    /\ "GAME OVER" \in Lines(output)

\* C3: over any execution the GAME OVER narration is emitted at most once.
C3_DeathOnce == gameOvers <= 1

\* the player died, and at least two more inputs reached the game since
C3_InputsAfterDeath ==
    /\ gameOvers = 1
    /\ isDead
    /\ "GAME OVER" \notin Lines(output)
    /\ steps = MaxSteps

\* C4: isDead and hasWon are never both true.
C4_NotDeadAndWon == ~(isDead /\ hasWon)

\* the player escaped with 10 health and the adrenaline shot (10 damage)
\* still in hand, and an input arrived after the escape
C4_WonWithLethalDose ==
    /\ hasWon
    /\ ~isDead
    /\ health <= 10
    /\ hasItem(inventory, "adrenaline")
    /\ output = << >>

\* every room's items and danger status
roomsItemsAndDanger ==
    [r \in RoomIds |->
        <<rooms[r].items, rooms[r].isDangerous, rooms[r].dangerMessage>>]

\* C5: once the game is Dead or Won, every later command and tick leaves
\* health, energy, inventory, currentRoom, turns, the gameState flags and
\* every room's items and danger status unchanged.
C5_TerminalFrozen ==
    [][Terminal =>
        UNCHANGED <<health, energy, inventory, currentRoom, turns, gameState,
                    roomsItemsAndDanger>>]_vars

\* an input was handled in a terminal state
C5_InputWhenTerminal ==
    /\ Terminal
    /\ steps > 0
    /\ output = << >>

\* the addExit calls of the content for direction d of room r that let the
\* player through: not declared locked, or the unlock flag is set
OpenCalls(r, d) ==
    { k \in 1..Len(ExitCalls) :
        /\ ExitCalls[k][1] = r
        /\ ExitCalls[k][2] = d
        /\ (~ExitCalls[k][4] \/ gameState[ExitCalls[k][5]]) }

\* C6: getExit returns a destination exactly when an exit is registered
\* for the direction and it was registered unlocked or its unlock flag is
\* true; for a locked exit whose flag is false it returns null.
C6_ExitIffUnlocked ==
    \A r \in RoomIds, d \in Directions \cup {"escape"} :
        (getExit(exits[r], d) # NULL) <=> (OpenCalls(r, d) # {})

\* the addExit calls of room r declared locked whose flag is false
LockedCalls(r) ==
    { k \in 1..Len(ExitCalls) :
        /\ ExitCalls[k][1] = r
        /\ ExitCalls[k][4]
        /\ ~gameState[ExitCalls[k][5]] }

\* C7: a movement command in a direction declared locked, while the flag
\* is false, leaves currentRoom, turns and energy unchanged and reports the
\* locked-exit message rather than "You can't go".
C7_LockedMoveRefused ==
    \A k \in LockedCalls(currentRoom) :
        \E g \in { processCommand(atInput, ExitCalls[k][2], "") } :
            /\ g.currentRoom = currentRoom
            /\ g.turns = turns
            /\ g.energy = energy
            /\ "exit locked" \in Lines(g.output)
            /\ "can't go" \notin Lines(g.output)

\* C8: a take command naming an item, issued when the inventory holds
\* exactly maxInventorySize items, leaves the rooms' items, the inventory
\* and energy unchanged and reports that the inventory is full, whether or
\* not the item is in the room.
C8_FullInventoryRefusesTake ==
    Len(inventory) = maxInventorySize =>
        \A itemId \in idsOf(rooms[currentRoom].items) \cup {"elevator-key", "nothing"} :
            \E g \in { processCommand(atInput, "take", itemId) } :
                /\ g.rooms = rooms
                /\ g.inventory = inventory
                /\ g.energy = energy
                /\ "inventory full" \in Lines(g.output)

\* a take was refused with a full inventory in a room that has items
C8_TakeRefused ==
    /\ Len(inventory) = maxInventorySize
    /\ "inventory full" \in Lines(output)
    /\ rooms[currentRoom].items # << >>

\* C9: in every reachable state the inventory holds at most
\* maxInventorySize items.
C9_InventoryBounded == Len(inventory) <= maxInventorySize

\* the containers that hold the Item object obj
Holders(obj) ==
    { r \in RoomIds : \E k \in 1..Len(rooms[r].items) : rooms[r].items[k] = obj }
    \cup (IF \E k \in 1..Len(inventory) : inventory[k] = obj
          THEN {"inventory"} ELSE {})

\* the Item objects held anywhere
Held ==
    UNION { Lines(rooms[r].items) : r \in RoomIds } \cup Lines(inventory)

\* C10: each Item object is held by exactly one container, never by two
\* rooms and never by a room and the inventory at once.
C10_OneContainerPerItem ==
    \A obj \in Held : Cardinality(Holders(obj)) = 1

\* the usable fuse items of an inventory
usableFuses(items) ==
    { k \in 1..Len(items) : items[k].id = "fuse" /\ items[k].canUse }

\* danger status of the rooms and the flags the power switch touches
powerState(g) ==
    <<g.rooms["claims"].isDangerous, g.rooms["claims"].dangerMessage,
      g.rooms["cafeteria"].isDangerous, g.rooms["cafeteria"].dangerMessage,
      g.rooms["sub-basement"].isDangerous, g.rooms["sub-basement"].dangerMessage,
      g.gameState["powerRestored"], g.gameState["fuseInstalled"],
      g.gameState["elevatorAccess"]>>

\* C11: with power off and the fuse in the inventory in the server room,
\* `use fuse` followed by `remove fuse` restores isDangerous and
\* dangerMessage of claims, cafeteria and sub-basement and the flags
\* powerRestored, fuseInstalled and elevatorAccess, and the inventory
\* again holds exactly one usable fuse.
C11_InstallRemoveRestores ==
    (/\ ~Terminal
     /\ currentRoom = "servers"
     /\ ~gameState["powerRestored"]
     /\ hasItem(inventory, "fuse")) =>
        \E g1 \in { processCommand(atInput, "use", "fuse") } :
            \E g2 \in { processCommand(g1, "remove", "fuse") } :
                /\ powerState(g2) = powerState(atInput)
                /\ Cardinality(usableFuses(g2.inventory)) = 1

\* C12: every state a tick or a command can observe has claims and
\* cafeteria dangerous exactly when the power is off and the sub-basement
\* dangerous exactly when it is on.
C12_PowerAndDangerAgree ==
    /\ rooms["claims"].isDangerous = ~gameState["powerRestored"]
    /\ rooms["cafeteria"].isDangerous = ~gameState["powerRestored"]
    /\ rooms["sub-basement"].isDangerous = gameState["powerRestored"]

\* the fuse has just been installed: power on, the three rooms switched
C12_PowerJustRestored ==
    /\ gameState["powerRestored"]
    /\ "fuse installed" \in Lines(output)
    /\ ~rooms["cafeteria"].isDangerous
    /\ rooms["sub-basement"].isDangerous

\* the Game object after a tick fired in the current state
afterTick == healthTick(atInput)

toxicClaims ==
    /\ ~Terminal
    /\ currentRoom = "claims"
    /\ ~gameState["powerRestored"]

\* C13: a tick fired while the Active player is in the claims room with
\* power off reduces health by exactly 5 (not below 0) without a gas mask
\* in the inventory and leaves health unchanged with one.
C13_ClaimsTick ==
    toxicClaims =>
        afterTick.health =
            IF hasItem(inventory, "gasmask") THEN health ELSE Max(0, health - 5)

\* C13 as amended: the same, where without a gas mask health goes down by
\* exactly 5 unless god mode is on, in which case it is unchanged.
C13_ClaimsTickUnlessGod ==
    toxicClaims =>
        afterTick.health =
            IF hasItem(inventory, "gasmask") \/ gameState["godMode"]
            THEN health ELSE Max(0, health - 5)

\* a tick has just fired on a player wearing the gas mask in toxic claims
C13_MaskedTick ==
    /\ toxicClaims
    /\ hasItem(inventory, "gasmask")
    /\ steps > 0
    /\ output = << >>
    /\ lastDamageMessage = rooms["claims"].dangerMessage

\* C14: a tick fired while the player is in the research lab causes no
\* health loss when the inventory holds a gas mask or a hazmat suit.
C14_LabProtection ==
    (/\ ~Terminal
     /\ currentRoom = "research-lab"
     /\ (hasItem(inventory, "gasmask") \/ hasItem(inventory, "hazmat-suit"))) =>
        afterTick.health = health

\* C15: a tick regenerates 1 energy (capped at maxEnergy) exactly when the
\* player is in neither a dangerous nor a disorienting room; in a dangerous
\* room energy stays, in a disorienting room it only drains.
C15_RegenOnlyWhenSafe ==
    ~Terminal =>
        afterTick.energy =
            IF currentRoom \in Disorienting THEN Max(0, energy - 2)
            ELSE IF rooms[currentRoom].isDangerous THEN energy
            ELSE Min(maxEnergy, energy + 1)

afterCommand(action, target) == keydownEnter(atInput, action, target)

\* g differs from the current Game object in nothing but the output lines
sameState(g) == [g EXCEPT !.output = << >>] = atInput

\* C17: the escape command sets hasWon exactly when it is issued while the
\* game is Active and the player is on the roof; in any other room it
\* leaves the state unchanged; and the victory summary is emitted at most
\* once over an execution.
C17_EscapeOnlyFromRoof ==
    /\ victories <= 1
    /\ \A verb \in {"escape", "climb"} :
        \E g \in { afterCommand(verb, "") } :
            /\ (g.hasWon /\ ~hasWon) <=> (~Terminal /\ currentRoom = "roof")
            /\ currentRoom # "roof" => sameState(g)

\* the escape command has just won the game
C17_JustEscaped ==
    /\ hasWon
    /\ victories = 1
    /\ currentRoom = "roof"
    /\ "YOU ESCAPED" \in Lines(output)

\* C18: a movement command whose exit lookup yields a destination sets
\* currentRoom to it, increments turns by 1, deducts 2 energy (clamped at
\* 0) and changes neither health, inventory, any room's items nor any
\* flag; only the first room display of the game is free of charge.
C18_MoveCost ==
    /\ init(Game).turns = 1
    /\ init(Game).energy = maxEnergy
    /\ ~Terminal =>
        \A word \in Directions \cup {"n", "s", "e", "w", "u", "d"} :
            getExit(exits[currentRoom], directionMap(word)) # NULL =>
                \E g \in { afterCommand(word, "") } :
                    /\ g.currentRoom = getExit(exits[currentRoom], directionMap(word))
                    /\ g.turns = turns + 1
                    /\ g.energy = Max(0, energy - 2)
                    /\ g.health = health
                    /\ g.inventory = inventory
                    /\ g.gameState = gameState
                    /\ \A r \in RoomIds : g.rooms[r].items = rooms[r].items

\* the exhausted player has just moved: the cost was clamped at 0
C18_MovedExhausted ==
    /\ "you head" \in Lines(output)
    /\ energy = 0
    /\ turns > 1

\* command lines whose verb Game.processCommand does not recognise
unrecognised ==
    { <<"dance", "">>, <<"xyzzy", "north">>, <<"remove", "batteries">>,
      <<"remove", "">> }
    \cup (IF cheatsUnlocked THEN {}
          ELSE { <<"cheat", code>> : code \in {"", "god", "heal", "keys", "reveal"} })

\* C19: a command whose verb is not recognised (`cheat` before the cheats
\* are unlocked and `remove` without `fuse` included) leaves health,
\* energy, inventory, currentRoom, turns, flags and all rooms unchanged.
C19_UnrecognisedChangesNothing ==
    ~Terminal =>
        \A in \in unrecognised :
            \E g \in { afterCommand(in[1], in[2]) } :
                /\ sameState(g)
                /\ "I don't understand" \in Lines(g.output)

\* an unrecognised command was just answered, with the cheats locked
C19_NotUnderstood ==
    /\ "I don't understand" \in Lines(output)
    /\ ~cheatsUnlocked
    /\ steps > 0

\* the fields C20 speaks of are the same in g as now
sameItemsAndStats(g) ==
    /\ g.health = health
    /\ g.energy = energy
    /\ g.inventory = inventory
    /\ g.gameState = gameState
    /\ g.currentRoom = currentRoom
    /\ g.turns = turns
    /\ \A r \in RoomIds : g.rooms[r].items = rooms[r].items

itemNames == ItemIds \cup {"cabinet", "wall", "nothing"}

\* the command line "action target" changes none of those fields
refused(action, target) ==
    \E g \in { afterCommand(action, target) } : sameItemsAndStats(g)

\* take, drop and use with an id that is not there, and use of an item
\* that is not usable, change nothing
invalidTakeDropUse(id) ==
    /\ ~hasItem(rooms[currentRoom].items, id) => refused("take", id)
    /\ ~hasItem(inventory, id) => refused("drop", id) /\ refused("use", id)
    /\ (hasItem(inventory, id) /\ ~inventory[findIndex(inventory, id)].canUse) =>
            \E g \in { afterCommand("use", id) } :
                /\ sameItemsAndStats(g)
                /\ "can't use" \in Lines(g.output)

\* the one examine of a thing that is no item which the engine answers:
\* the pried-open cabinet (or the wall behind it) in the storage room
hiddenHatch(id) ==
    /\ id \in {"cabinet", "wall"}
    /\ currentRoom = "storage"
    /\ gameState["cabinetMoved"]
    /\ ~gameState["tunnelRevealed"]

\* C20: take with an id that is not in the room, drop, use or examine with
\* an id that is in neither the inventory nor (for examine) the room, and
\* use of an item that is not usable, leave health, energy, inventory,
\* room items, flags, currentRoom and turns unchanged.
C20_InvalidItemChangesNothing ==
    ~Terminal =>
        \A id \in itemNames :
            /\ invalidTakeDropUse(id)
            /\ (~hasItem(inventory, id) /\ ~hasItem(rooms[currentRoom].items, id)) =>
                    refused("examine", id)

\* C20 as amended: the same, except that examining the cabinet or the wall
\* in the storage room once the cabinet is pried open, while the tunnel is
\* not yet revealed, sets the flag tunnelRevealed.
C20_InvalidItemExceptHatch ==
    ~Terminal =>
        \A id \in itemNames :
            /\ invalidTakeDropUse(id)
            /\ (~hasItem(inventory, id) /\ ~hasItem(rooms[currentRoom].items, id)) =>
                    IF hiddenHatch(id)
                    THEN afterCommand("examine", id).gameState =
                            [gameState EXCEPT !["tunnelRevealed"] = TRUE]
                    ELSE refused("examine", id)

\* an item that is not usable was just refused while carried
C20_UseRefused ==
    /\ "can't use" \in Lines(output)
    /\ steps > 0
    /\ \E k \in 1..Len(inventory) : ~inventory[k].canUse

\* the content's basement key (the one with an effect) is carried
carriesBasementKey ==
    /\ hasItem(inventory, "basement-key")
    /\ inventory[findIndex(inventory, "basement-key")].canUse

\* C21: using the content's basement key in claims while basementUnlocked
\* is false sets that flag and nothing else, the key stays in the
\* inventory, and a move down from claims then reaches the basement; with
\* the flag set, a use of a basement key in whatever room changes no state.
C21_BasementKeyOnce ==
    (~Terminal /\ hasItem(inventory, "basement-key")) =>
        \E g \in { afterCommand("use", "basement-key") } :
            IF gameState["basementUnlocked"] THEN sameState(g)
            ELSE (currentRoom = "claims" /\ carriesBasementKey) =>
                    /\ [g EXCEPT !.output = << >>] =
                         [atInput EXCEPT !.gameState["basementUnlocked"] = TRUE]
                    /\ hasItem(g.inventory, "basement-key")
                    /\ keydownEnter(g, "down", "").currentRoom = "basement"

\* the key has opened the door and was then used once more, in vain
C21_KeyUsedAgain ==
    /\ gameState["basementUnlocked"]
    /\ carriesBasementKey
    /\ currentRoom = "claims"
    /\ Lines(output) = {"> command", "already unlocked"}

\* the words Game.processCommand takes for a movement
moveWords == Directions \cup {"n", "s", "e", "w", "u", "d"}

\* C22: a movement command in a direction for which the current room has
\* no registered exit leaves currentRoom, turns, energy, health and the
\* visited marks of all rooms (and everything else but the output)
\* unchanged.
C22_NoExitNoChange ==
    ~Terminal =>
        \A word \in moveWords :
            getExit(exits[currentRoom], directionMap(word)) = NULL =>
                \E g \in { afterCommand(word, "") } :
                    /\ sameState(g)
                    /\ \A r \in RoomIds : g.rooms[r].visited = rooms[r].visited
                    /\ "can't go" \in Lines(g.output)

\* a move was just refused for want of an exit
C22_MoveRefused ==
    /\ Lines(output) = {"> command", "can't go"}
    /\ steps > 0
    /\ \E d \in Directions : getExit(exits[currentRoom], d) = NULL

\* the (room, direction) pairs of the graph whose destination id is not
\* the id of a registered room
brokenExits ==
    { <<graph.rooms[k].id, d>> :
        k \in 1..Len(graph.rooms), d \in {"north", "south", "east", "west",
                                          "up", "down", "escape"} } \cap
    { p \in (PoolIds \cup RoomIds) \X {"north", "south", "east", "west",
                                       "up", "down", "escape"} :
        /\ has(graph, p[1])
        /\ p[2] \in DOMAIN mapGet(graph, p[1]).exits
        /\ ~has(graph, mapGet(graph, p[1]).exits[p[2]]) }

\* the errors of a validation result that report a broken exit
brokenErrors(result) ==
    { j \in 1..Len(result.errors) : result.errors[j][1] = "broken exit" }

\* a validation result has exactly one error for each broken exit
oneErrorEach(result) ==
    /\ Cardinality(brokenErrors(result)) = Cardinality(brokenExits)
    /\ \A p \in brokenExits :
        \E j \in brokenErrors(result) :
            /\ result.errors[j][2] = p[1]
            /\ result.errors[j][3] = p[2]

\* C23: validate() returns valid = false with exactly one error for each
\* (room, direction) whose destination is not a registered room; it
\* returns valid = true when the graph is not empty, its start room is a
\* registered room and every destination is registered; the shipped
\* content validates with valid = true.
C23_ValidateErrors ==
    /\ validate(contentGraph).returned.valid
    /\ \E result \in { validate(graph).returned } :
        /\ graph.rooms # << >> => oneErrorEach(result)
        /\ brokenExits # {} => ~result.valid
        /\ (/\ graph.rooms # << >>
            /\ has(graph, graph.startRoomId)
            /\ brokenExits = {}) => result.valid

\* the ids that can be reached from the ids in `from` by following exits
\* of registered rooms, whatever their lock state
RECURSIVE closure(_)
closure(from) ==
    LET step == { mapGet(graph, id).exits[d] :
                    <<id, d>> \in { p \in from \X {"north", "south", "east", "west",
                                                   "up", "down", "escape"} :
                                      /\ has(graph, p[1])
                                      /\ p[2] \in DOMAIN mapGet(graph, p[1]).exits } }
    IN  IF step \subseteq from THEN from ELSE closure(from \cup step)

\* the registered rooms that cannot be reached from the start room
cutOff ==
    { graph.rooms[k].id : k \in 1..Len(graph.rooms) } \ closure({graph.startRoomId})

\* C24: the warnings validate() returns name exactly the registered rooms
\* that are not reachable from the start room along the declared exits,
\* each once, and the errors and valid are those of the start room and
\* broken exit checks alone: an unreachable room adds no error.
C24_WarningsAreUnreachable ==
    \E result \in { validate(graph).returned } :
        IF graph.rooms = << >> THEN result.warnings = << >>
        ELSE /\ { result.warnings[j][2] : j \in 1..Len(result.warnings) } = cutOff
             /\ Len(result.warnings) = Cardinality(cutOff)
             /\ Len(result.errors) =
                    Cardinality(brokenExits) + (IF falsy(graph.startRoomId) THEN 1 ELSE 0)
             /\ result.valid <=> result.errors = << >>

\* validate() has just returned a valid result with a warning, for a graph
\* in which the start room leads somewhere
C24_ValidWithWarning ==
    /\ returned[1] = "validate"
    /\ returned[2].valid
    /\ returned[2].warnings # << >>
    /\ Cardinality(closure({graph.startRoomId})) > 1

\* C25: once a room has been added, startRoomId is the id of a registered
\* room; addRoom makes its room the start room exactly when there was none
\* before, and setStartRoom with an id that is not registered throws and
\* leaves startRoomId and the room map as they were.
C25_StartRoomRegistered ==
    /\ graph.rooms = << >> => graph.startRoomId = NULL
    /\ graph.rooms # << >> => has(graph, graph.startRoomId)
    /\ \A id \in PoolIds :
        \E call \in { addRoom(graph, RoomObject(Room(id), << >>)) } :
            /\ has(call.graph, id)
            /\ call.graph.startRoomId =
                    IF graph.rooms = << >> THEN id ELSE graph.startRoomId
    /\ \A id \in PoolIds \cup {"void", "roof"} :
        \E call \in { setStartRoom(graph, id) } :
            IF has(graph, id)
            THEN call.graph = [graph EXCEPT !.startRoomId = id]
            ELSE call.graph = graph /\ call.returned = "Error: Room does not exist"

\* setStartRoom has just thrown on a graph with two rooms or more, whose
\* start room is still the first one added
C25_UnknownStartRefused ==
    /\ returned = <<"setStartRoom", "Error: Room does not exist">>
    /\ Len(graph.rooms) >= 2
    /\ graph.startRoomId = graph.rooms[1].id

\* the graph after each of the five read-only methods
afterQueries ==
    { getAllRooms(graph).graph, getGraphData(graph).graph,
      generateASCIIMap(graph).graph, getStats(graph).graph, validate(graph).graph }

\* C26: getAllRooms(), getGraphData(), generateASCIIMap(), getStats() and
\* validate() leave the graph (the room map, startRoomId and every room's
\* exits, items, visited mark and danger status) as it was, also when
\* called one after the other.
C26_QueriesReadOnly ==
    /\ afterQueries = {graph}
    /\ \A G \in afterQueries :
        /\ getAllRooms(G).graph = graph
        /\ getGraphData(G).graph = graph
        /\ generateASCIIMap(G).graph = graph
        /\ getStats(G).graph = graph
        /\ validate(G).graph = graph

\* two of the read-only methods were called on the shipped content, the
\* second one being getAllRooms
C26_ContentQueried ==
    /\ returned[1] = "getAllRooms"
    /\ steps = 2
    /\ graph = contentGraph
    /\ returned[2] = graph.rooms
    /\ \E k \in 1..Len(graph.rooms) : graph.rooms[k].isDangerous

\* the line that tells that a command of the main path has succeeded
successLine(in) ==
    CASE in[1] = "take" -> "you take"
      [] in = <<"use", "basement-key">> -> "unlocked"
      [] in = <<"use", "fuse">> -> "fuse installed"
      [] in = <<"use", "elevator-key">> -> "elevator open"
      [] in[1] = "escape" -> "YOU ESCAPED"
      [] OTHER -> "you head"

\* every command of `inputs`, given one after the other to g, succeeds
RECURSIVE allSucceed(_, _)
allSucceed(g, inputs) ==
    \/ inputs = << >>
    \/ \E g1 \in { Input(g, Head(inputs)) } :
        /\ successLine(Head(inputs)) \in Lines(g1.output)
        /\ allSucceed(g1, Tail(inputs))

\* the game once the main path has been typed, with no tick in between
afterMainPath == Run(init(Game), MainPath)

\* the game once the main path has been typed up to the roof
onTheRoof == [Run(init(Game), MainPathToRoof) EXCEPT !.output = << >>]

\* C27: from the initial state, with no tick in between, every command of
\* the README's main path succeeds, the doors it opens are open, and the
\* escape that ends it leaves hasWon true and isDead false.
C27_MainPathWins ==
    atInput = onTheRoof =>
        /\ allSucceed(init(Game), MainPath)
        /\ \E g \in { afterCommand("escape", "") } :
            /\ g.hasWon
            /\ ~g.isDead
            /\ g.gameState["basementUnlocked"]
            /\ g.gameState["powerRestored"]
            /\ g.gameState["elevatorAccess"]

\* the main path has just been played to its end
C27_MainPathPlayed ==
    /\ hasWon
    /\ ~isDead
    /\ "YOU ESCAPED" \in Lines(output)
    /\ [this EXCEPT !.output = << >>] = [afterMainPath EXCEPT !.output = << >>]

\* C28: right after initialisation the game is Active in the start room
\* security, with health 100, energy 100 (the first room display costs no
\* energy), an empty inventory and every flag false.
C28_InitialState ==
    (steps = 0 /\ this = init(Game)) =>
        /\ ~isDead /\ ~hasWon
        /\ currentRoom = "security"
        /\ currentRoom = contentGraph.startRoomId
        /\ health = 100
        /\ energy = 100
        /\ inventory = << >>
        /\ \A f \in FlagNames : ~gameState[f]

\* the game has just been initialised and no input has arrived yet
C28_JustInitialised ==
    /\ steps = 0
    /\ turns = 1
    /\ rooms["security"].visited
    /\ this = init(Game)

\* the place of a line in the lines of an output, 0 when it is not there
place(out, line) ==
    IF line \in Lines(out) THEN CHOOSE k \in 1..Len(out) : out[k] = line ELSE 0

\* C29: on a room entry the room is marked visited, then the description
\* resolved from the flags is emitted, then the items, then the exits, then
\* (in the same command) the danger message of a dangerous room, and the
\* movement cost is taken last: the exhaustion shown before it is judged
\* on the energy before the cost, the one reported after it on the rest.
C29_EntryOrder ==
    ~Terminal =>
        \A word \in Directions :
            getExit(exits[currentRoom], word) # NULL =>
                \E g \in { afterCommand(word, "") } :
                    \E out \in { g.output } :
                        /\ g.rooms[g.currentRoom].visited
                        /\ place(out, "you head") < place(out, "title")
                        /\ place(out, getDynamicDescription(atInput, g.currentRoom))
                                = place(out, "title") + 1
                        /\ Len(g.rooms[g.currentRoom].items) > 0 <=>
                                place(out, "items") = place(out, "title") + 2
                        /\ place(out, "exits") =
                                place(out, "title")
                                + (IF Len(g.rooms[g.currentRoom].items) > 0 THEN 3 ELSE 2)
                        /\ g.rooms[g.currentRoom].isDangerous <=>
                                place(out, "danger") = place(out, "exits") + 1
                        /\ g.rooms[g.currentRoom].isDangerous =>
                                g.lastDamageMessage = g.rooms[g.currentRoom].dangerMessage
                        /\ "collapse" \in Lines(out) <=>
                                (g.currentRoom \in Disorienting /\ energy <= 0)
                        /\ "exhausted" \in Lines(out) <=> energy <= 2
                        /\ "exhausted" \in Lines(out) => place(out, "exhausted") = Len(out)
                        /\ g.energy = Max(0, energy - 2)

\* a dangerous room was just entered on the last of the player's energy
C29_DangerThenCost ==
    /\ rooms[currentRoom].isDangerous
    /\ place(output, "you head") > 0
    /\ place(output, "danger") > place(output, "exits")
    /\ place(output, "exhausted") > place(output, "danger")
    /\ energy = 0

\* C30: elevatorAccess is true exactly when powerRestored and
\* elevatorUnlocked are both true.
C30_ElevatorAccessIffBoth ==
    gameState["elevatorAccess"] <=>
        (gameState["powerRestored"] /\ gameState["elevatorUnlocked"])

\* C31: in game.js on the content of gameData.js, a tick that fires while
\* the player, who carries no protection, is in the dangerous sub-basement
\* reduces health by 10 (not below 0), twice the 5 of other dangerous rooms.
C31_SubBasementDoubleDamage ==
    (~Terminal /\ rooms[currentRoom].isDangerous /\ inventory = << >>) =>
        gameJs_healthTick(atInput).health =
            Max(0, health - (IF currentRoom = "sub-basement" THEN 10 ELSE 5))

\* C32: currentRoom becomes the roof only through a move up from the lobby
\* taken while elevatorAccess, the flag that guards that exit, is true.
C32_RoofOnlyByElevator ==
    [][(currentRoom' = "roof" /\ currentRoom # "roof") =>
            (currentRoom = "lobby" /\ gameState["elevatorAccess"])]_vars

\* C33: a take of the elevator-key in the sub-basement while powerRestored
\* is true is refused: the key stays in the room and inventory, energy and
\* health (and all the rest but the output) are unchanged; with the power
\* off again the same command takes the key.
C33_NoKeyFromLiveWater ==
    (~Terminal /\ currentRoom = "sub-basement"
        /\ hasItem(rooms["sub-basement"].items, "elevator-key")) =>
        \A verb \in {"take", "get", "pickup"} :
            \E g \in { afterCommand(verb, "elevator-key") } :
                IF gameState["powerRestored"]
                THEN /\ sameState(g)
                     /\ "you take" \notin Lines(g.output)
                ELSE Len(inventory) < maxInventorySize =>
                        /\ "you take" \in Lines(g.output)
                        /\ \E items \in { rooms["sub-basement"].items } :
                            \E index \in { findIndex(items, "elevator-key") } :
                                /\ g.inventory = Append(inventory, items[index])
                                /\ g.rooms["sub-basement"].items = splice(items, index)

\* the key was refused with the power on
C33_KeyRefused ==
    /\ currentRoom = "sub-basement"
    /\ gameState["powerRestored"]
    /\ "electrified water" \in Lines(output)
    /\ hasItem(rooms["sub-basement"].items, "elevator-key")
    /\ ~hasItem(inventory, "elevator-key")

\* the key was taken after the fuse that had been installed was removed
C33_KeyTakenPowerOff ==
    /\ currentRoom = "sub-basement"
    /\ ~gameState["powerRestored"]
    /\ hasItem(inventory, "fuse")
    /\ "you take" \in Lines(output)
    /\ hasItem(inventory, "elevator-key")

\* C34: remove fuse changes the state only in the server room with the
\* fuse installed; anywhere else, and when repeated at once, it gives no
\* fuse and changes no flag and no danger status (nothing but the output);
\* and the use of a fuse while powerRestored is true changes nothing.
C34_RemoveFuseOnce ==
    ~Terminal =>
        /\ \E g \in { afterCommand("remove", "fuse") } :
            IF currentRoom = "servers" /\ gameState["fuseInstalled"]
            THEN /\ ~g.gameState["fuseInstalled"]
                 /\ ~g.gameState["powerRestored"]
                 /\ Len(g.inventory) = Len(inventory) + 1
                 /\ g.inventory[Len(g.inventory)].id = "fuse"
                 /\ \E again \in { keydownEnter([g EXCEPT !.output = << >>],
                                                "remove", "fuse") } :
                        [again EXCEPT !.output = << >>] = [g EXCEPT !.output = << >>]
            ELSE sameState(g)
        /\ gameState["powerRestored"] =>
            /\ sameState(afterCommand("use", "fuse"))
            /\ \A effect \in {"fuse", "fuse (re-attached)"} :
                    sameState(useEffect(effect, atInput))

\* the fuse was removed and the command was given a second time
C34_RemovedTwice ==
    /\ steps >= 2
    /\ currentRoom = "servers"
    /\ ~gameState["fuseInstalled"]
    /\ hasItem(inventory, "fuse")
    /\ "no fuse installed" \in Lines(output)

\* C35: a hazard tick leaves the current room, the inventory, every room's
\* items and danger status, every flag, the turn count and hasWon as they
\* were; only health, energy, isDead and the two pending warnings (with the
\* game-over screen that death prints) can differ afterwards.
C35_TickFrame ==
    [afterTick EXCEPT !.health = health, !.energy = energy,
                      !.isDead = isDead,
                      !.lastDamageMessage = lastDamageMessage,
                      !.lastEnergyWarning = lastEnergyWarning,
                      !.gameOvers = gameOvers, !.output = << >>] = atInput

\* a tick that hurts and leaves a new pending warning
C35_TickHurts ==
    /\ ~Terminal
    /\ afterTick.health < health
    /\ afterTick.lastDamageMessage # lastDamageMessage

\* a tick that drains more energy than it gives back
C35_TickDrains == ~Terminal /\ afterTick.energy < energy

\* the player has neither the gas mask in the unpowered claims room nor the
\* hazmat suit in the research lab
unprotected ==
    /\ ~(currentRoom = "claims" /\ ~gameState["powerRestored"]
            /\ hasInInventory(this, "gasmask"))
    /\ ~(currentRoom = "research-lab" /\ hasInInventory(this, "hazmat-suit"))

exposed ==
    /\ ~Terminal
    /\ rooms[currentRoom].isDangerous
    /\ unprotected
    /\ ~gameState["godMode"]

\* C36: an Active player who stands unprotected in a dangerous room with
\* god mode off and types nothing more is eventually dead, the timer being
\* weakly fair.
C36_IdleInDangerDies == exposed ~> isDead

\* the timer has killed a player who stood unprotected in a dangerous room
C36_KilledByTheRoom ==
    /\ isDead
    /\ health = 0
    /\ rooms[currentRoom].isDangerous
    /\ unprotected
    /\ ~gameState["godMode"]
    /\ lastDamageMessage # NULL

\* where the items with id "fuse" are: positions in the inventory and in
\* the item lists of the rooms
fusePlaces ==
    { <<"inventory", k>> : k \in { j \in 1..Len(inventory) : inventory[j].id = "fuse" } }
    \cup UNION { { <<r, k>> : k \in { j \in 1..Len(rooms[r].items) :
                                         rooms[r].items[j].id = "fuse" } }
                 : r \in RoomIds }

\* C37: fuseInstalled and powerRestored are equal in every reachable state,
\* and the inventory and the rooms together hold exactly one fuse while
\* fuseInstalled is false and none while it is true.
C37_FuseAndPower ==
    /\ gameState["fuseInstalled"] = gameState["powerRestored"]
    /\ Cardinality(fusePlaces) = (IF gameState["fuseInstalled"] THEN 0 ELSE 1)

\* the fuse is back in the inventory after it was pulled from the panel
C37_FusePulledAgain ==
    /\ ~gameState["fuseInstalled"]
    /\ "fuse removed" \in Lines(output)
    /\ fusePlaces = { <<"inventory", Len(inventory)>> }

\* C38: in every reachable state the tunnel is revealed only if the cabinet
\* was moved and the storage cabinet opened.
C38_TunnelNeedsCabinet ==
    gameState["tunnelRevealed"] =>
        (gameState["cabinetMoved"] /\ gameState["storageOpened"])

\* the hatch has just been found behind the opened cabinet
C38_HatchJustFound ==
    /\ gameState["tunnelRevealed"]
    /\ currentRoom = "storage"
    /\ "path revealed" \in Lines(output)

\* C39: `look` (or `l`) enters the current room again: turns goes up by 1
\* and energy down by 2, not below 0, while currentRoom, health, inventory,
\* the flags and every room's items stay as they were.
C39_LookIsRoomEntry ==
    ~Terminal =>
        \A verb \in {"look", "l"} :
            \E g \in { afterCommand(verb, "") } :
                /\ g.turns = turns + 1
                /\ g.energy = Max(0, energy - 2)
                /\ g.currentRoom = currentRoom
                /\ g.health = health
                /\ g.inventory = inventory
                /\ g.gameState = gameState
                /\ \A r \in RoomIds : g.rooms[r].items = rooms[r].items

\* the player has just looked around without moving
C39_JustLooked ==
    /\ "title" \in Lines(output)
    /\ "you head" \notin Lines(output)
    /\ turns > 1

\* the ids of the items a player in the current room can take
takeable ==
    IF Terminal \/ Len(inventory) >= maxInventorySize THEN {}
    ELSE { id \in idsOf(rooms[currentRoom].items) :
             ~(currentRoom = "sub-basement" /\ id = "elevator-key"
                 /\ gameState["powerRestored"]) }

\* how many times item occurs in items
count(items, item) == Cardinality({ k \in 1..Len(items) : items[k] = item })

\* the two lists hold the same items the same number of times
sameBag(a, b) ==
    /\ Len(a) = Len(b)
    /\ \A k \in 1..Len(a) : count(a, a[k]) = count(b, a[k])

\* a successful take moves the first item with that id from the room to the
\* end of the inventory for 1 energy
takeMoves(id, g) ==
    LET items == rooms[currentRoom].items
        index == findIndex(items, id)
    IN  /\ g.inventory = Append(inventory, items[index])
        /\ g.rooms[currentRoom].items = splice(items, index)
        /\ \A r \in RoomIds \ {currentRoom} : g.rooms[r].items = rooms[r].items
        /\ g.energy = Max(0, energy - 1)

\* C40: a successful take of X moves exactly one item with id X from the
\* room to the end of the inventory and costs 1 energy; take X and then
\* drop X in the same room leaves the room's items (as a multiset), the
\* inventory, health, flags and turns as before the take, with only energy
\* reduced by 1, not below 0.
C40_TakeDropRoundTrip ==
    \A id \in takeable :
        \E g1 \in { afterCommand("take", id) } :
            \E g2 \in { keydownEnter(g1, "drop", id) } :
                /\ takeMoves(id, g1)
                /\ sameBag(g2.rooms[currentRoom].items, rooms[currentRoom].items)
                /\ g2.inventory = inventory
                /\ g2.health = health
                /\ g2.gameState = gameState
                /\ g2.turns = turns
                /\ g2.energy = Max(0, energy - 1)

\* the round trip for an item whose id the inventory does not hold yet
C40_RoundTripWithoutDuplicate ==
    \A id \in { x \in takeable : ~hasItem(inventory, x) } :
        \E g1 \in { afterCommand("take", id) } :
            \E g2 \in { keydownEnter(g1, "drop", id) } :
                /\ takeMoves(id, g1)
                /\ sameBag(g2.rooms[currentRoom].items, rooms[currentRoom].items)
                /\ g2.inventory = inventory
                /\ g2.health = health
                /\ g2.gameState = gameState
                /\ g2.turns = turns
                /\ g2.energy = Max(0, energy - 1)

\* every successful take is the move the first half describes
C40_TakeMovesOne ==
    \A id \in takeable : takeMoves(id, afterCommand("take", id))

====
